---- MODULE Spec2Model ----
(***************************************************************************)
(* Model of the resumable migration engine of slack-workspace-migrator:    *)
(* the per-channel download/resume state machine (migrator.py,             *)
(* slack_client.py) and the thread reconstruction of the upload side.      *)
(*                                                                         *)
(* Timestamps are modelled as positive integers (0 stands for "absent");   *)
(* the code orders them by float(ts), which is order-preserving and        *)
(* injective on the service's fixed-width timestamps.                      *)
(***************************************************************************)
EXTENDS Integers, Sequences, FiniteSets, TLC

\* ---- bounds -------------------------------------------------------------
NumChannels == 2
MaxTs == 2
PageLimit == 1
MaxFile == 1
MaxRuns == 2
MaxUpTs == 3
MaxUpLen == 3
MaxRetriesBound == 3
MaxInvocations == 2

Channels == 1..NumChannels
TsRange == 1..MaxTs
FileIds == 1..MaxFile

VARIABLES
    svc,              \* source service content: ts -> -1 absent, 0 top-level, p reply of p
    pageOrder,        \* order in which the service pages the history
    disk,             \* one persisted record per channel
    downloaded_files, \* file ids already downloaded by this migrator instance
    mode,             \* "none", "workspace" (download_workspace_data), "single"
    force,            \* the force flag of the running download
    pc,               \* position of the running download
    chan,             \* channel being downloaded
    oldest,           \* oldest-timestamp parameter of the history fetch (0 = None)
    cursor,           \* index of the next history page
    fetched,          \* get_channel_messages' in-memory list `messages`
    tidx,             \* position of the thread-reply pass in `fetched`
    result,           \* how the last download call ended
    touched,          \* channels for which this call made a remote call or a file write
    merged,           \* timestamps merged into the record by this call's saves of chan
    lastEvent,        \* the step just taken, and the channel it was about
    interruptedAt,    \* channel during which an interrupt arrived in this call (0 = none)
    startTs,          \* timestamps stored for chan when this call began it
    plain,            \* so far: only non-forced calls, disturbed only by interrupts between saves
    runs,             \* number of download calls started
    upLog,            \* upload: the channel's full stored message log
    upSel,            \* upload: channel_data["messages"] handed to _upload_messages
    outgoing,         \* upload: filtered_messages after reconstruction
    uidx,             \* upload: position in `outgoing`
    thread_mapping,   \* upload: source ts -> destination ts (0 = no entry)
    posts,            \* upload: chat.postMessage requests issued, in order
    upc,              \* upload: position of the channel upload
    max_retries,      \* client: the configured attempt budget
    base_rate_limit_delay, \* client: the configured default delay
    method,           \* request: the operation requested
    attempt,          \* request: loop variable of _make_request
    rq,               \* request: "idle", "loop", "returned", "raised"
    calls,            \* request: call attempts made by this request
    lastResp,         \* request: outcome of the latest call attempt
    slept,            \* request: sleep taken after the latest call attempt
    raised,           \* request: the error surfaced to the caller ("none" = none)
    gap,              \* request: time from the previous call start of this operation
                      \*          to the latest one (-1 = there was none)
    sinceCall,        \* client: operation -> time since its latest call start (-1 = never)
    at,               \* attachments: msgFiles (per message, the file ids of its "files"
                      \*   list), fsys0 (paths on disk before the run), earlier (the
                      \*   record was completed by an earlier run), fsys (paths on disk),
                      \*   file_cache (self.downloaded_files, file id -> local path),
                      \*   stored (per message, the file entries as stored), fpc
                      \*   ("download", "upload", "done"), mi and fi (message and file at
                      \*   hand), file_permalinks (permalinks collected for the message
                      \*   at hand), remoteLog (remote calls issued, in order)
    mp,               \* mapping: source_channels (data["channels"]), dest_ws (the channels
                      \*   of the destination workspace), lists_private (whether the
                      \*   service lists private channels), channel_mapping
                      \*   (self.channel_mapping, source id -> destination id, 0 = no
                      \*   entry), dest_channels (the listing _create_channels works
                      \*   from), mpath ("workspace" or "single"), mpc (position of
                      \*   upload_workspace_data), mci (source channel at hand),
                      \*   invocation (number of upload_workspace_data calls started),
                      \*   mlog (what the calls did at the destination, in order);
                      \*   in the upload of several channels messages_data (source
                      \*   channel -> stored messages) and sent (per channel that
                      \*   is posted to: source, destination, position of its
                      \*   first post)
    um,               \* users: source_users (data["users"]), dest_users, user_mapping
                      \*   (self.user_mapping, 0 = no entry), user_result (how the last
                      \*   _create_user_mapping ended), user_runs (calls made)
    pg                \* listing: list_op (the operation requested), page_sizes (the
                      \*   service's pages, by number of items), page_cursor (the
                      \*   method's `cursor`, 0 = None), items (the accumulator),
                      \*   page_requests (cursors of the requests issued, in order),
                      \*   list_state ("idle", "start", "loop", "returned", "raised")

dlVars == <<svc, pageOrder, disk, downloaded_files, mode, force, pc, chan, oldest,
            cursor, fetched, tidx, result, touched, merged, lastEvent,
            interruptedAt, startTs, plain, runs>>

upVars == <<upLog, upSel, outgoing, uidx, thread_mapping, posts, upc>>

rqVars == <<max_retries, base_rate_limit_delay, method, attempt, rq, calls,
            lastResp, slept, raised, gap, sinceCall>>

atVars == <<at>>

mpVars == <<mp>>

umVars == <<um>>

pgVars == <<pg>>

vars == <<dlVars, upVars, rqVars, atVars, mpVars, umVars, pgVars>>

\* ---- sequences ----------------------------------------------------------
TsSet(msgs) == {msgs[i].ts : i \in DOMAIN msgs}

Min(a, b) == IF a < b THEN a ELSE b

\* list.sort(key=float(ts)) is a stable sort: insertion after every element
\* whose key is less than or equal to the new one.
RECURSIVE InsertByTs(_, _)
InsertByTs(sorted, m) ==
    IF sorted = <<>> THEN <<m>>
    ELSE IF Head(sorted).ts <= m.ts
         THEN <<Head(sorted)>> \o InsertByTs(Tail(sorted), m)
         ELSE <<m>> \o sorted

RECURSIVE SortByTsFrom(_, _)
SortByTsFrom(acc, msgs) ==
    IF msgs = <<>> THEN acc
    ELSE SortByTsFrom(InsertByTs(acc, Head(msgs)), Tail(msgs))

\* mutant: the sort orders newest first
SortByTsDescending(msgs) ==
    LET asc == SortByTsFrom(<<>>, msgs)
    IN [i \in 1..Len(asc) |-> asc[Len(asc) + 1 - i]]

SortByTs(msgs) == SortByTsFrom(<<>>, msgs)

NoDuplicateTs(msgs) ==
    \A i, j \in DOMAIN msgs : i # j => msgs[i].ts # msgs[j].ts

SortedByTs(msgs) ==
    \A i, j \in DOMAIN msgs : i < j => msgs[i].ts <= msgs[j].ts

\* ---- the source service (environment) -----------------------------------
FileOf(t) == IF t % 2 = 0 THEN 1 ELSE 0

\* content of a channel: ts -> -1 absent, 0 top-level, p reply of p.  The first
\* channel holds the content chosen initially, every other channel is empty.
ChannelSvc(c) ==
    IF c = 1 THEN svc ELSE [t \in TsRange |-> -1]

ReplyCount(c, t) == Cardinality({r \in TsRange : ChannelSvc(c)[r] = t})

Msg(t, th, rc) ==
    [ts |-> t, thread_ts |-> th, reply_count |-> rc, subtype |-> "none",
     text |-> TRUE, file |-> FileOf(t), download_status |-> "none",
     should_broadcast |-> FALSE]

TopMsg(c, t) == Msg(t, IF ReplyCount(c, t) > 0 THEN t ELSE 0, ReplyCount(c, t))

ReplyMsg(c, t) == Msg(t, ChannelSvc(c)[t], 0)

\* every timestamp the service holds for a channel
AllTs(c) == {t \in TsRange : ChannelSvc(c)[t] >= 0}

ValidService(s) ==
    \A t \in TsRange : s[t] >= 1 => (s[t] < t /\ s[s[t]] = 0)

RECURSIVE Ascending(_, _)
Ascending(S, above) ==
    IF \A t \in S : t <= above THEN <<>>
    ELSE LET t == CHOOSE x \in S : x > above /\ \A y \in S : y > above => x <= y
         IN <<t>> \o Ascending(S, t)

Reverse(s) == [i \in 1..Len(s) |-> s[Len(s) + 1 - i]]

\* conversations.history: the top-level messages strictly newer than `oldest`
HistorySeq(c, old) ==
    LET asc == Ascending({t \in TsRange : ChannelSvc(c)[t] = 0 /\ t > old}, 0)
        ord == IF pageOrder = "newest_first" THEN Reverse(asc) ELSE asc
    IN [i \in 1..Len(ord) |-> TopMsg(c, ord[i])]

NumPages(c, old) ==
    LET n == Len(HistorySeq(c, old))
    IN IF n = 0 THEN 1 ELSE (n + PageLimit - 1) \div PageLimit

HistoryPage(c, old, i) ==
    LET h == HistorySeq(c, old)
    IN SubSeq(h, (i - 1) * PageLimit + 1, Min(i * PageLimit, Len(h)))

\* conversations.replies: every page starts with the parent message
RepliesSeq(c, p) ==
    LET asc == Ascending({t \in TsRange : ChannelSvc(c)[t] = p}, 0)
    IN [i \in 1..Len(asc) |-> ReplyMsg(c, asc[i])]

RepliesNumPages(c, p) ==
    LET n == Len(RepliesSeq(c, p))
    IN IF n = 0 THEN 1 ELSE (n + PageLimit - 1) \div PageLimit

RepliesPage(c, p, i) ==
    LET r == RepliesSeq(c, p)
    IN <<TopMsg(c, p)>> \o SubSeq(r, (i - 1) * PageLimit + 1, Min(i * PageLimit, Len(r)))

\* ---- slack_client.get_thread_replies ------------------------------------
RECURSIVE ThreadRepliesFrom(_, _, _)
ThreadRepliesFrom(c, p, i) ==
    LET batch_replies == RepliesPage(c, p, i)
        kept == IF Len(batch_replies) > 1 THEN Tail(batch_replies) ELSE <<>>
    IN IF i < RepliesNumPages(c, p) THEN kept \o ThreadRepliesFrom(c, p, i + 1) ELSE kept

GetThreadReplies(c, p) == ThreadRepliesFrom(c, p, 1)

\* ---- the persisted channel record ---------------------------------------
EmptyRecord ==
    [exists |-> FALSE, torn |-> FALSE, messages |-> <<>>,
     download_completed |-> FALSE, files_downloaded |-> FALSE,
     error |-> FALSE, wrapped |-> FALSE]

\* a file truncated by open(.., "w") whose json.dump did not finish
TornRecord == [EmptyRecord EXCEPT !.exists = TRUE, !.torn = TRUE]

\* _load_existing_channel_data: a missing or unparseable file reads as the default
LoadExisting(c) ==
    IF disk[c].exists /\ ~disk[c].torn THEN disk[c] ELSE EmptyRecord

\* mutant: the resume point is the timestamp of the first stored message
FirstTsOf(msgs) == IF msgs = <<>> THEN 0 ELSE Head(msgs).ts

\* _get_last_message_timestamp
RECURSIVE MaxTsOf(_)
MaxTsOf(msgs) ==
    IF msgs = <<>> THEN 0
    ELSE LET rest == MaxTsOf(Tail(msgs))
         IN IF Head(msgs).ts > rest THEN Head(msgs).ts ELSE rest

\* mutant: a batch is stored only while the record holds no message
AppendToEmptyOnly(existing, new) == IF existing = <<>> THEN new ELSE existing

\* the loop of _save_incremental_messages that appends unseen timestamps
RECURSIVE AppendUnseen(_, _)
AppendUnseen(existing, new) ==
    IF new = <<>> THEN existing
    ELSE IF Head(new).ts \in TsSet(existing)
         THEN AppendUnseen(existing, Tail(new))
         ELSE AppendUnseen(Append(existing, Head(new)), Tail(new))

\* _save_incremental_messages: the record it writes
SaveIncrementalUnsorted(c, new_messages, wrappedInfo, is_complete) ==
    LET existing_data == LoadExisting(c)
    IN [existing_data EXCEPT
            !.exists = TRUE,
            !.wrapped = wrappedInfo,
            !.messages = AppendUnseen(existing_data.messages, new_messages),
            !.download_completed = is_complete]

SaveIncrementalNoDedup(c, new_messages, wrappedInfo, is_complete) ==
    LET existing_data == LoadExisting(c)
    IN [existing_data EXCEPT
            !.exists = TRUE,
            !.wrapped = wrappedInfo,
            !.messages = SortByTs(existing_data.messages \o new_messages),
            !.download_completed = is_complete]

SaveIncremental(c, new_messages, wrappedInfo, is_complete) ==
    LET existing_data == LoadExisting(c)
    IN [existing_data EXCEPT
            !.exists = TRUE,
            !.wrapped = wrappedInfo,
            !.messages = SortByTs(AppendUnseen(existing_data.messages, new_messages)),
            !.download_completed = is_complete]

\* ---- attachments: _download_file / _process_message_files ----------------
\* `out[f]` is whether the HTTP download of file f succeeds when attempted.
\* Returns <<updated messages, downloaded_files>>.
RECURSIVE DownloadChannelFiles(_, _, _)
DownloadChannelFiles(msgs, cache, out) ==
    IF msgs = <<>> THEN <<(<<>>), cache>>
    ELSE LET m == Head(msgs)
             ok == m.file \in cache \/ (m.file # 0 /\ out[m.file])
             m2 == IF m.file = 0 THEN m
                   ELSE [m EXCEPT !.download_status =
                                    IF ok THEN "success" ELSE "failed"]
             cache2 == IF m.file # 0 /\ ok THEN cache \cup {m.file} ELSE cache
             rest == DownloadChannelFiles(Tail(msgs), cache2, out)
         IN <<(<<m2>> \o rest[1]), rest[2]>>

\* the outcomes of the downloads that can be attempted for msgs: a file that
\* is in the cache, or that no message carries, is never requested
AttemptOutcomes(msgs, cache) ==
    {out \in [FileIds -> BOOLEAN] :
        \A f \in FileIds :
            (f \in cache \/ \A i \in DOMAIN msgs : msgs[i].file # f) => out[f]}

\* the record written by the final save of download_workspace_data
FinalRecord(updated_messages) ==
    [exists |-> TRUE, torn |-> FALSE, messages |-> updated_messages,
     download_completed |-> TRUE, files_downloaded |-> TRUE,
     error |-> FALSE, wrapped |-> FALSE]

\* the error_data record written when a failed channel has no stored message
ErrorRecord ==
    [exists |-> TRUE, torn |-> FALSE, messages |-> <<>>,
     download_completed |-> FALSE, files_downloaded |-> FALSE,
     error |-> TRUE, wrapped |-> FALSE]

\* ---- control flow of the two download entry points -----------------------
Event(k, c) == [kind |-> k, ch |-> c]

\* the locals of a channel's download go out of scope with its try block
DropLocals ==
    /\ oldest' = 0
    /\ cursor' = 1
    /\ fetched' = <<>>
    /\ tidx' = 1

\* the `for channel in channels` loop moves on, or the call returns
Advance ==
    /\ DropLocals
    /\ IF mode = "workspace" /\ chan < NumChannels
       THEN /\ chan' = chan + 1
            /\ pc' = "begin"
            /\ result' = result
       ELSE /\ chan' = chan
            /\ pc' = "idle"
            /\ result' = "returned"

\* mutant: the interrupt is swallowed and the loop goes on
InterruptContinues ==
    /\ interruptedAt' = chan
    /\ lastEvent' = Event("interrupt", chan)
    /\ Advance

\* KeyboardInterrupt leaving the channel's try block.  download_workspace_data
\* re-raises it; in download_single_channel the clause `except SlackApiError`
\* names a class migrator.py never imports, so a NameError leaves instead.
InterruptEffect ==
    /\ DropLocals
    /\ interruptedAt' = chan
    /\ lastEvent' = Event("interrupt", chan)
    /\ chan' = chan
    /\ pc' = "idle"
    /\ result' = IF mode = "workspace" THEN "interrupted" ELSE "name_error"

\* mutant: a failed channel ends the whole call
FailureAborts(d) ==
    /\ lastEvent' = Event("failed", chan)
    /\ interruptedAt' = interruptedAt
    /\ disk' = d
    /\ DropLocals
    /\ chan' = chan
    /\ pc' = "idle"
    /\ result' = "raised"

\* a non-interrupt exception leaving the channel's try block, `d` being the
\* disk at that moment
FailureEffect(d) ==
    /\ lastEvent' = Event("failed", chan)
    /\ interruptedAt' = interruptedAt
    /\ IF mode = "workspace"
       THEN /\ disk' = IF d[chan].exists /\ ~d[chan].torn /\ d[chan].messages # <<>>
                       THEN d
                       ELSE [d EXCEPT ![chan] = ErrorRecord]
            /\ Advance
       ELSE /\ disk' = d
            /\ DropLocals
            /\ chan' = chan
            /\ pc' = "idle"
            /\ result' = "name_error"

SaveOutcomes == {"ok", "unchanged", "torn", "interrupted"}

\* the write at the end of _save_incremental_messages: done, refused (the
\* exception is logged and swallowed), cut short by an I/O error (swallowed),
\* or cut short by an interrupt
WriteRecord(c, rec, w) ==
    CASE w = "ok" -> [disk EXCEPT ![c] = rec]
      [] w = "unchanged" -> disk
      [] OTHER -> [disk EXCEPT ![c] = TornRecord]

\* save_progress(batch): the progress callback of get_channel_messages
SaveProgress(batch, w) ==
    IF batch = <<>>
    THEN /\ w = "ok"
         /\ disk' = disk
         /\ merged' = merged
    ELSE /\ disk' = WriteRecord(chan, SaveIncremental(chan, batch, FALSE, FALSE), w)
         /\ merged' = IF w = "ok" THEN merged \cup TsSet(batch) ELSE merged

StartWorkspace(f) ==
    /\ pc = "idle"
    /\ runs < MaxRuns
    /\ runs' = runs + 1
    /\ mode' = "workspace"
    /\ force' = f
    /\ chan' = 1
    /\ pc' = "begin"
    /\ result' = "none"
    /\ touched' = {}
    /\ merged' = {}
    /\ interruptedAt' = 0
    /\ startTs' = {}
    /\ plain' = (plain /\ ~f)
    /\ lastEvent' = Event("start", 0)
    /\ UNCHANGED <<svc, pageOrder, disk, downloaded_files, oldest, cursor, fetched, tidx>>

StartSingle(c, f) ==
    /\ pc = "idle"
    /\ runs < MaxRuns
    /\ runs' = runs + 1
    /\ mode' = "single"
    /\ force' = f
    /\ chan' = c
    /\ pc' = "begin"
    /\ result' = "none"
    /\ touched' = {}
    /\ merged' = {}
    /\ interruptedAt' = 0
    /\ startTs' = {}
    /\ plain' = (plain /\ ~f)
    /\ lastEvent' = Event("start", 0)
    /\ UNCHANGED <<svc, pageOrder, disk, downloaded_files, oldest, cursor, fetched, tidx>>

\* mutant: the completion flag is ignored and the channel is fetched again
BeginChannelAlways ==
    /\ pc = "begin"
    /\ LET existing_data == LoadExisting(chan)
       IN /\ oldest' = IF ~force /\ existing_data.messages # <<>>
                        THEN MaxTsOf(existing_data.messages) ELSE 0
          /\ startTs' = TsSet(existing_data.messages)
    /\ cursor' = 1
    /\ fetched' = <<>>
    /\ tidx' = 1
    /\ merged' = {}
    /\ pc' = "history"
    /\ lastEvent' = Event("begin", chan)
    /\ UNCHANGED <<svc, pageOrder, disk, downloaded_files, mode, force, touched,
                   interruptedAt, plain, runs, chan, result>>

\* load the record; skip a completed channel, else set the resume point
BeginChannel ==
    /\ pc = "begin"
    /\ LET existing_data == LoadExisting(chan)
       IN IF ~force /\ existing_data.download_completed
          THEN /\ Advance
               /\ lastEvent' = Event("skipped", chan)
               /\ UNCHANGED <<merged, startTs>>
          ELSE /\ oldest' = IF ~force /\ existing_data.messages # <<>>
                            THEN MaxTsOf(existing_data.messages) ELSE 0
               /\ cursor' = 1
               /\ fetched' = <<>>
               /\ tidx' = 1
               /\ merged' = {}
               /\ startTs' = TsSet(existing_data.messages)
               /\ pc' = "history"
               /\ lastEvent' = Event("begin", chan)
               /\ UNCHANGED <<chan, result>>
    /\ UNCHANGED <<svc, pageOrder, disk, downloaded_files, mode, force, touched,
                   interruptedAt, plain, runs>>

\* one iteration of the history loop of get_channel_messages
FetchPage(w) ==
    /\ pc = "history"
    /\ LET batch_messages == HistoryPage(chan, oldest, cursor)
       IN /\ SaveProgress(batch_messages, w)
          /\ IF w = "interrupted"
             THEN InterruptEffect
             ELSE /\ fetched' = fetched \o batch_messages
                  /\ lastEvent' = Event("page", chan)
                  /\ IF cursor < NumPages(chan, oldest)
                     THEN /\ cursor' = cursor + 1
                          /\ pc' = pc
                     ELSE /\ cursor' = cursor
                          /\ pc' = "threads"
                  /\ tidx' = 1
                  /\ UNCHANGED <<oldest, chan, result, interruptedAt>>
    /\ touched' = touched \cup {chan}
    /\ plain' = (plain /\ w = "ok")
    /\ UNCHANGED <<svc, pageOrder, downloaded_files, mode, force, startTs, runs>>

\* index of the next fetched message that has replies, 0 when there is none
NextThread ==
    LET S == {i \in tidx..Len(fetched) : fetched[i].reply_count > 0 /\ fetched[i].ts # 0}
    IN IF S = {} THEN 0 ELSE CHOOSE i \in S : \A j \in S : i <= j

\* the thread-reply pass: fetch and save the replies of the next thread
FetchThread(w) ==
    /\ pc = "threads"
    /\ NextThread # 0
    /\ LET thread_replies == GetThreadReplies(chan, fetched[NextThread].ts)
       IN SaveProgress(thread_replies, w)
    /\ touched' = touched \cup {chan}
    /\ IF w = "interrupted"
       THEN InterruptEffect
       ELSE /\ lastEvent' = Event("thread", chan)
            /\ tidx' = NextThread + 1
            /\ UNCHANGED <<chan, result, interruptedAt, pc, oldest, cursor, fetched>>
    /\ plain' = (plain /\ w = "ok")
    /\ UNCHANGED <<svc, pageOrder, downloaded_files, mode, force, startTs, runs>>

\* get_channel_messages returns
ThreadsDone ==
    /\ pc = "threads"
    /\ NextThread = 0
    /\ pc' = "files"
    /\ lastEvent' = Event("fetched", chan)
    /\ UNCHANGED <<svc, pageOrder, disk, downloaded_files, mode, force, chan, oldest,
                   cursor, fetched, tidx, result, touched, merged, interruptedAt,
                   startTs, plain, runs>>

\* attachment processing and the final save of download_workspace_data
FinalSaveWorkspace(out, w) ==
    /\ pc = "files"
    /\ mode = "workspace"
    /\ LET all_messages == LoadExisting(chan).messages
           res == DownloadChannelFiles(all_messages, downloaded_files, out)
           written == WriteRecord(chan, FinalRecord(res[1]), w)
       IN /\ downloaded_files' = res[2]
          /\ CASE w = "ok" ->
                    /\ disk' = written
                    /\ lastEvent' = Event("completed", chan)
                    /\ interruptedAt' = interruptedAt
                    /\ Advance
               [] w = "interrupted" ->
                    /\ disk' = written
                    /\ InterruptEffect
               [] OTHER -> FailureEffect(written)
    /\ touched' = touched \cup {chan}
    /\ plain' = (plain /\ w = "ok")
    /\ UNCHANGED <<svc, pageOrder, mode, force, merged, startTs, runs>>

\* attachment processing and the final save of download_single_channel, which
\* hands the final record to _save_incremental_messages as channel_info and
\* leaves is_complete at its default
FinalSaveSingle(out, w) ==
    /\ pc = "files"
    /\ mode = "single"
    /\ LET all_messages == LoadExisting(chan).messages
           res == DownloadChannelFiles(all_messages, downloaded_files, out)
       IN /\ downloaded_files' = res[2]
          /\ disk' = WriteRecord(chan, SaveIncremental(chan, <<>>, TRUE, FALSE), w)
    /\ IF w = "interrupted"
       THEN InterruptEffect
       ELSE /\ lastEvent' = Event(IF w = "ok" THEN "completed" ELSE "save_failed", chan)
            /\ interruptedAt' = interruptedAt
            /\ Advance
    /\ touched' = touched \cup {chan}
    /\ plain' = (plain /\ w = "ok")
    /\ UNCHANGED <<svc, pageOrder, mode, force, merged, startTs, runs>>

\* a remote request (or the attachment stage) raises a non-interrupt error
Fail ==
    /\ pc \in {"history", "threads", "files"}
    /\ pc = "threads" => NextThread # 0
    /\ FailureEffect(disk)
    /\ touched' = touched \cup {chan}
    /\ plain' = FALSE
    /\ UNCHANGED <<svc, pageOrder, downloaded_files, mode, force, merged, startTs,
                   runs>>

\* an interrupt arrives while a request, a sleep or a download is in progress
Interrupt ==
    /\ pc \in {"history", "threads", "files"}
    /\ InterruptEffect
    /\ touched' = touched \cup {chan}
    /\ UNCHANGED <<svc, pageOrder, disk, downloaded_files, mode, force, merged,
                   startTs, plain, runs>>

\* ---- slack_client: _make_request ----------------------------------------
\* Durations are counted in tenths of a second.
Second == 10

\* operations the migrator requests through the client's _make_request
\* (upload_file, the client's other retry loop, has no caller)
Methods == {"conversations_history", "chat_postMessage", "reactions_add"}

\* the entries of the table for the operations above; reactions_add has none
HistoryDelay == 12
PostMessageDelay == 10

API_RATE_LIMITS ==
    [m \in {"conversations_history", "chat_postMessage"} |->
        IF m = "conversations_history" THEN HistoryDelay ELSE PostMessageDelay]

\* the delays a client may be configured with (the default is one second)
ConfiguredDelays == {5, Second}

get_method_delay(m) ==
    IF m \in DOMAIN API_RATE_LIMITS THEN API_RATE_LIMITS[m] ELSE base_rate_limit_delay

\* mutant: only the first attempt of a request is delayed
AttemptDelayFirstOnly(m, k) == IF k > 0 THEN 0 ELSE get_method_delay(m)

\* the sleep that precedes call attempt number k of a request
AttemptDelay(m, k) == get_method_delay(m)

RateLimitCodes == {"rate_limited", "ratelimited"}
EmojiCodes == {"invalid_name", "no_reaction"}
AuthCodes == {"invalid_auth", "account_inactive", "token_revoked", "not_authed"}
\* API errors of no special category
OtherCodes == {"internal_error"}
\* an exception of the HTTP layer (connection reset, timeout): not a SlackApiError
TransportErrors == {"connection_error"}

\* what a call attempt can come back with: success, an API error, or a
\* transport exception; a rate-limited reply may carry the HTTP header
\* Retry-After (retry_after, 0 = the header is absent)
RetryAfterValues == {0, 2 * Second}
Responses ==
    {[code |-> c, retry_after |-> 0] :
        c \in {"ok"} \cup EmojiCodes \cup AuthCodes \cup OtherCodes \cup TransportErrors}
    \cup {[code |-> c, retry_after |-> h] : c \in RateLimitCodes, h \in RetryAfterValues}

NoResponse == [code |-> "none", retry_after |-> 0]

\* e.response as the handler subscripts it: the decoded reply body of a
\* failed call, whose keys are ok and error
ResponseBody(r) == [k \in {"ok", "error"} |-> IF k = "ok" THEN "false" ELSE r.code]

DefaultRetryAfter == 60 * Second

\* int(e.response.get("headers", {}).get("Retry-After", 60))
RetryAfter(r) ==
    LET body == ResponseBody(r)
        headers == IF "headers" \in DOMAIN body THEN body["headers"] ELSE <<>>
    IN IF "Retry-After" \in DOMAIN headers
       THEN headers["Retry-After"]
       ELSE DefaultRetryAfter

Backoff(k) == Second * 2 ^ k

\* mutant: an authentication error is retried like any other error
DispositionRetriesAuth(m, r, k) ==
    IF r.code = "ok" THEN "return"
    ELSE IF r.code \in TransportErrors THEN "propagate"
    ELSE IF r.code \in RateLimitCodes THEN "wait"
    ELSE IF m = "reactions_add" /\ r.code \in EmojiCodes THEN "raise"
    ELSE IF k = max_retries - 1 THEN "raise"
    ELSE "backoff"

\* mutant: an emoji validation error is retried like any other error
DispositionRetriesEmoji(m, r, k) ==
    IF r.code = "ok" THEN "return"
    ELSE IF r.code \in TransportErrors THEN "propagate"
    ELSE IF r.code \in RateLimitCodes THEN "wait"
    ELSE IF r.code \in AuthCodes THEN "raise"
    ELSE IF k = max_retries - 1 THEN "raise"
    ELSE "backoff"

\* the try/except of one iteration of _make_request's loop, in the order of
\* its branches
Disposition(m, r, k) ==
    IF r.code = "ok" THEN "return"
    ELSE IF r.code \in TransportErrors THEN "propagate"
    ELSE IF r.code \in RateLimitCodes THEN "wait"
    ELSE IF m = "reactions_add" /\ r.code \in EmojiCodes THEN "raise"
    ELSE IF r.code \in AuthCodes THEN "raise"
    ELSE IF k = max_retries - 1 THEN "raise"
    ELSE "backoff"

\* the clock moves on by d; per operation it is enough to tell the elapsed
\* time up to that operation's delay
Elapse(e, d) ==
    [m \in Methods |->
        IF e[m] = -1 THEN -1
        ELSE IF e[m] + d > get_method_delay(m) THEN get_method_delay(m) ELSE e[m] + d]

RequestIdle ==
    /\ method = "conversations_history"
    /\ attempt = 0
    /\ rq = "idle"
    /\ calls = 0
    /\ lastResp = NoResponse
    /\ slept = 0
    /\ gap = -1
    /\ raised = "none"
    /\ sinceCall = [m \in Methods |-> -1]

\* a caller enters _make_request(method)
StartRequest(m) ==
    /\ rq # "loop"
    /\ method' = m
    /\ attempt' = 0
    /\ rq' = "loop"
    /\ calls' = 0
    /\ lastResp' = NoResponse
    /\ slept' = 0
    /\ gap' = -1
    /\ raised' = "none"
    /\ UNCHANGED <<max_retries, base_rate_limit_delay, sinceCall>>

\* one iteration of the retry loop: the delay, the call, and the handling of its
\* outcome r
Attempt(r) ==
    /\ rq = "loop"
    /\ attempt < max_retries
    /\ LET before == Elapse(sinceCall, AttemptDelay(method, attempt))
           d == Disposition(method, r, attempt)
           after == CASE d = "wait" -> RetryAfter(r)
                      [] d = "backoff" -> Backoff(attempt)
                      [] OTHER -> 0
       IN /\ gap' = before[method]
          /\ slept' = after
          /\ sinceCall' = Elapse([before EXCEPT ![method] = 0], after)
          /\ rq' = CASE d = "return" -> "returned"
                     [] d \in {"raise", "propagate"} -> "raised"
                     [] OTHER -> "loop"
          /\ raised' = IF d \in {"raise", "propagate"} THEN r.code ELSE "none"
          /\ attempt' = IF d \in {"wait", "backoff"} THEN attempt + 1 ELSE attempt
    /\ calls' = calls + 1
    /\ lastResp' = r
    /\ UNCHANGED <<max_retries, base_rate_limit_delay, method>>

\* the loop ran out: the statement after it raises the "Failed to make
\* request" exception
Exhausted ==
    /\ rq = "loop"
    /\ attempt >= max_retries
    /\ rq' = "raised"
    /\ raised' = "exhausted"
    /\ UNCHANGED <<max_retries, base_rate_limit_delay, method, attempt, calls,
                   lastResp, slept, gap, sinceCall>>

\* ---- attachments: download, permalink upload, post ------------------------
\* a local path: the sanitized file name and the numeric suffix (0 = none)
NoPath == [name |-> "none", n |-> 0]

\* the name under which the service lists a file; different files may carry
\* the same name
FileName(f) == IF f % 2 = 1 THEN "report.pdf" ELSE "photo.png"

\* the "files" list of a message
FileLists == UNION {[1..n -> FileIds] : n \in {0, 1, 2}}

\* mutant: the name is used as it is, taken or not
UnsuffixedPath(name, fs, n) == [name |-> name, n |-> n]

\* the while loop over local_path.exists(): the first free suffix from n on
\* (n = 0 stands for the name without suffix)
RECURSIVE FreePathFrom(_, _, _)
FreePathFrom(name, fs, n) ==
    IF [name |-> name, n |-> n] \in fs
    THEN FreePathFrom(name, fs, n + 1)
    ELSE [name |-> name, n |-> n]

\* what the GET of a file body can end in: the body is written, the server
\* answers with an error status (raise_for_status), or the transfer breaks
\* after the local file was opened
DownloadOutcomes == {"ok", "http_error", "write_error"}

\* `if local_path.exists(): local_path.unlink()` of the except branch
CleanUp(fs, path) == fs \ {path}

\* mutant: the cache is never consulted
CacheMiss(cache, file_id) == FALSE

\* `if file_id in self.downloaded_files`
CacheHit(cache, file_id) == cache[file_id] # NoPath

\* a remote call as the service sees it; via tells whether it was issued by
\* the client's _make_request or by a direct call
RemoteCall(kind, via, channel, m, i, f, outcome, links) ==
    [kind |-> kind, via |-> via, channel |-> channel, msg |-> m, idx |-> i,
     file |-> f, outcome |-> outcome, links |-> links]

\* the local_path a file info carries when the record it is read from was
\* completed by an earlier run (a forced download reads the stored messages
\* back), none in a record that was never completed
PriorPath(f) ==
    IF at.earlier THEN [name |-> FileName(f), n |-> 0] ELSE NoPath

\* the entry _process_message_files stores for a file: a copy of the file
\* info, with the status always set and local_path set on success only
FileEntry(f, local_path) ==
    [id |-> f,
     download_status |-> IF local_path # NoPath THEN "success" ELSE "failed",
     local_path |-> IF local_path # NoPath THEN local_path ELSE PriorPath(f)]

\* the loop position after file fi of message mi; the upload starts over at
\* the first message
AfterFile ==
    IF at.fi < Len(at.msgFiles[at.mi]) THEN <<at.mi, at.fi + 1>> ELSE <<at.mi + 1, 1>>

\* no run over attachments: the position is all there is
AttachmentsIdle ==
    at = [fpc |-> "idle"]

\* _download_channel_files reaches a message without files
DownloadNoFiles ==
    /\ at.fpc = "download"
    /\ at.mi <= Len(at.msgFiles)
    /\ at.msgFiles[at.mi] = <<>>
    /\ at' = [at EXCEPT
                !.fpc = IF at.mi + 1 > Len(at.msgFiles) THEN "upload" ELSE @,
                !.mi = IF at.mi + 1 > Len(at.msgFiles) THEN 1 ELSE @ + 1]

\* _process_message_files for one file of the message: _download_file and
\* the stored entry
DownloadFile(outcome) ==
    /\ at.fpc = "download"
    /\ at.mi <= Len(at.msgFiles)
    /\ at.fi <= Len(at.msgFiles[at.mi])
    /\ LET file_id == at.msgFiles[at.mi][at.fi]
           local_path == FreePathFrom(FileName(file_id), at.fsys, 0)
           hit == CacheHit(at.file_cache, file_id)
           returned == IF hit THEN at.file_cache[file_id]
                       ELSE IF outcome = "ok" THEN local_path ELSE NoPath
       IN /\ hit => outcome = "ok"
          /\ at' = [at EXCEPT
                !.remoteLog =
                    IF hit THEN @
                    ELSE Append(@, RemoteCall("get", "direct", 0, at.mi, at.fi, file_id,
                                              outcome, <<>>)),
                !.fsys =
                    IF hit THEN @
                    ELSE CASE outcome = "ok" -> @ \cup {local_path}
                           [] outcome = "write_error" ->
                                 CleanUp(@ \cup {local_path}, local_path)
                           [] OTHER -> @,
                !.file_cache =
                    IF ~hit /\ outcome = "ok"
                    THEN [at.file_cache EXCEPT ![file_id] = local_path]
                    ELSE @,
                !.stored = [at.stored EXCEPT ![at.mi] =
                              Append(@, FileEntry(file_id, returned))],
                !.fpc = IF AfterFile[1] > Len(at.msgFiles) THEN "upload" ELSE @,
                !.mi = IF AfterFile[1] > Len(at.msgFiles) THEN 1 ELSE AfterFile[1],
                !.fi = AfterFile[2]]

\* mutant: a reference is added for every attempted upload
AppendPermalinkAlways(links, i, permalink) == Append(links, i)

\* `if permalink: file_permalinks.append(...)`
AppendPermalink(links, i, permalink) ==
    IF permalink THEN Append(links, i) ELSE links

\* step 1 of _upload_single_message_with_files for one file entry:
\* _upload_file_for_permalink, a files_upload_v2 call without channel
UploadFileForPermalink(permalink) ==
    /\ at.fpc = "upload"
    /\ at.mi <= Len(at.msgFiles)
    /\ at.fi <= Len(at.stored[at.mi])
    /\ LET file_info == at.stored[at.mi][at.fi]
           eligible == /\ file_info.local_path # NoPath
                       /\ file_info.download_status = "success"
                       /\ file_info.local_path \in at.fsys
       IN /\ ~eligible => ~permalink
          /\ at' = [at EXCEPT
                !.remoteLog =
                    IF eligible
                    THEN Append(@, RemoteCall("upload", "direct", 0, at.mi, at.fi,
                                              file_info.id,
                                              IF permalink THEN "ok" ELSE "error",
                                              <<>>))
                    ELSE @,
                !.file_permalinks =
                    IF eligible THEN AppendPermalink(@, at.fi, permalink) ELSE @,
                !.fi = @ + 1]

\* steps 2 and 3: the text is composed with the collected references and the
\* message is posted through the client
PostWithFiles(ok) ==
    /\ at.fpc = "upload"
    /\ at.mi <= Len(at.msgFiles)
    /\ at.fi > Len(at.stored[at.mi])
    /\ at' = [at EXCEPT
                !.remoteLog = Append(@, RemoteCall("post", "client", 1, at.mi, 0, 0,
                                                   IF ok THEN "ok" ELSE "error",
                                                   at.file_permalinks)),
                !.file_permalinks = <<>>,
                !.mi = @ + 1,
                !.fi = 1,
                !.fpc = IF at.mi + 1 > Len(at.msgFiles) THEN "done" ELSE @]

\* ---- cursor pagination of the list methods ---------------------------------
\* conversations_list (get_channels), users_list (get_users) and
\* conversations_history (get_channel_messages)
ListOperations == {"conversations_list", "users_list", "conversations_history"}

\* the service's pagings: up to three pages of up to two items, empty pages
\* included
PageSizes == UNION {[1..n -> {0, 1, 2}] : n \in {1, 2, 3}}

RECURSIVE ItemsBefore(_, _)
\* the number of items on the pages before page k
ItemsBefore(sizes, k) ==
    IF k <= 1 THEN 0 ELSE sizes[k - 1] + ItemsBefore(sizes, k - 1)

\* the items of page k: the service numbers its items in listing order
PageItems(sizes, k) ==
    [i \in 1..sizes[k] |-> ItemsBefore(sizes, k) + i]

\* the opaque cursor the service hands out for page k
CursorOf(k) == 100 + k

\* the page the service answers a request with
PageAt(c) == IF c = 0 THEN 1 ELSE c - 100

\* mutant: the cursor of the response is not taken over
NextCursorDropped(sizes, k) == 0

\* response_metadata.next_cursor of page k: none (0) on the last page
NextCursor(sizes, k) == IF k < Len(sizes) THEN CursorOf(k + 1) ELSE 0

\* no list method called
ListingIdle ==
    pg = [list_state |-> "idle"]

\* a list method is called: `cursor = None` and an empty accumulator
StartList ==
    /\ pg.list_state = "start"
    /\ pg' = [pg EXCEPT !.list_state = "loop", !.page_cursor = 0,
                        !.items = <<>>, !.page_requests = <<>>]

\* one turn of `while True`: the request, extend, the cursor, the break; an
\* error that _make_request raises leaves the method
RequestPage(ok) ==
    /\ pg.list_state = "loop"
    /\ LET k == PageAt(pg.page_cursor)
           next_cursor == NextCursor(pg.page_sizes, k)
       IN pg' = IF ok
                THEN [pg EXCEPT
                        !.page_requests = Append(@, pg.page_cursor),
                        !.items = @ \o PageItems(pg.page_sizes, k),
                        !.page_cursor = next_cursor,
                        !.list_state = IF next_cursor = 0 THEN "returned" ELSE "loop"]
                ELSE [pg EXCEPT
                        !.page_requests = Append(@, pg.page_cursor),
                        !.list_state = "raised"]

\* ---- channel mapping, user mapping and repeated upload ---------------------
ChannelNames == {"general", "dev"}

\* a stored source channel; its id is its position in the list
SourceChannel(name, is_private) == [name |-> name, is_private |-> is_private]

\* source channel lists: names are unique within a workspace
SourceChannelLists ==
    {l \in UNION {[1..n -> {SourceChannel(nm, p) : nm \in ChannelNames, p \in BOOLEAN}] :
                    n \in {1, 2}} :
        \A i, j \in DOMAIN l : l[i].name = l[j].name => i = j}

\* a channel of the destination workspace
DestChannel(id, name, is_private, is_member, is_archived) ==
    [id |-> id, name |-> name, is_private |-> is_private,
     is_member |-> is_member, is_archived |-> is_archived]

\* the destination workspace before the first upload: empty, or one channel
DestWorkspaces ==
    {<<>>} \cup {<<DestChannel(1, nm, p, m, a)>> :
                    nm \in ChannelNames, p \in BOOLEAN, m \in BOOLEAN, a \in BOOLEAN}

RECURSIVE ListedFrom(_, _, _)
\* get_channels: conversations_list with exclude_archived = True and no types
\* argument, so whether private channels are listed is the service's default
ListedFrom(d, private_too, i) ==
    IF i > Len(d) THEN <<>>
    ELSE IF ~d[i].is_archived /\ (private_too \/ ~d[i].is_private)
    THEN <<d[i]>> \o ListedFrom(d, private_too, i + 1)
    ELSE ListedFrom(d, private_too, i + 1)

Listed(d, private_too) == ListedFrom(d, private_too, 1)

\* the first channel of a listing that carries the name (0 = none)
RECURSIVE FindByName(_, _, _)
FindByName(listing, name, i) ==
    IF i > Len(listing) THEN 0
    ELSE IF listing[i].name = name THEN listing[i].id
    ELSE FindByName(listing, name, i + 1)

\* the service's answers to conversations_create
CreateOutcomes == {"ok", "name_taken", "error"}

\* the service refuses a name that any of its channels carries
NameTaken(d, name) == \E i \in DOMAIN d : d[i].name = name

\* the answer is one the service can give for the name
CanAnswerCreate(d, name, outcome) ==
    IF NameTaken(d, name) THEN outcome = "name_taken" ELSE outcome # "name_taken"

\* the workspace after a successful conversations_create: the creator is a
\* member of the new channel
Created(d, name, is_private) ==
    Append(d, DestChannel(Len(d) + 1, name, is_private, TRUE, FALSE))

\* the workspace after a successful conversations_join
Joined(d, id) == [d EXCEPT ![id].is_member = TRUE]

\* one thing a call did at the destination
MapEvent(op, src, id, name, outcome) ==
    [op |-> op, inv |-> mp.invocation, src |-> src, id |-> id, name |-> name,
     outcome |-> outcome]

NoMapping == [c \in 1..2 |-> 0]

\* no upload_workspace_data call: the position is all there is
MappingIdle ==
    mp = [mpc |-> "idle"]

\* upload_workspace_data is called, by a new process (fresh) or once more on
\* the same migrator; data holds the channel list (workspace) or only the
\* channel records (single)
InvokeUpload(path, fresh) ==
    /\ mp.mpc \in {"start", "done", "aborted"}
    /\ mp.invocation < MaxInvocations
    /\ mp.invocation = 0 => fresh
    /\ mp' = [mp EXCEPT
                !.invocation = @ + 1,
                !.mpath = path,
                !.channel_mapping = IF fresh THEN NoMapping ELSE @,
                !.dest_channels = <<>>,
                !.mci = 1,
                !.mpc = IF path = "workspace" THEN "list" ELSE "channels"]

\* _create_channels: the listing, taken once and outside any try
ListDestChannels(ok) ==
    /\ mp.mpc = "list"
    /\ mp' = [mp EXCEPT
                !.mpc = IF ok THEN "channels" ELSE "aborted",
                !.dest_channels = IF ok THEN Listed(mp.dest_ws, mp.lists_private) ELSE <<>>,
                !.mlog = Append(@, MapEvent("list", 0, 0, "",
                                            IF ok THEN "ok" ELSE "error"))]

\* the position after the source channel at hand
AfterChannel == IF mp.mci < Len(mp.source_channels) THEN <<mp.mpc, mp.mci + 1>>
                ELSE <<"upload", 1>>

\* _create_channels: one source channel
CreateChannelsStep(outcome) ==
    /\ mp.mpc = "channels"
    /\ mp.mpath = "workspace"
    /\ LET channel == mp.source_channels[mp.mci]
           found == FindByName(mp.dest_channels, channel.name, 1)
       IN IF found # 0
          THEN /\ outcome = "ok"
               /\ mp' = [mp EXCEPT
                           !.channel_mapping = [@ EXCEPT ![mp.mci] = found],
                           !.mlog = Append(@, MapEvent("map", mp.mci, found,
                                                       channel.name, "ok")),
                           !.mpc = AfterChannel[1],
                           !.mci = AfterChannel[2]]
          ELSE /\ CanAnswerCreate(mp.dest_ws, channel.name, outcome)
               /\ mp' = LET created == Created(mp.dest_ws, channel.name, channel.is_private)
                        IN [mp EXCEPT
                              !.dest_ws = IF outcome = "ok" THEN created ELSE @,
                              !.channel_mapping =
                                  IF outcome = "ok"
                                  THEN [@ EXCEPT ![mp.mci] = Len(created)] ELSE @,
                              !.mlog = Append(@,
                                  MapEvent("create", mp.mci,
                                           IF outcome = "ok" THEN Len(created) ELSE 0,
                                           channel.name, outcome)),
                              !.mpc = AfterChannel[1],
                              !.mci = AfterChannel[2]]

\* what _ensure_channel_exists does with a channel found in the listing: the
\* privacy flag it tests is the one of the source channel's channel_info
ExistingAction(is_member, is_private) ==
    IF ~is_member /\ ~is_private THEN "join"
    ELSE IF is_private /\ ~is_member THEN "flag"
    ELSE "none"

\* _handle_single_channel_creation: one source channel, through
\* _ensure_channel_exists
EnsureChannelStep(list_ok, outcome, join_ok) ==
    /\ mp.mpc = "channels"
    /\ mp.mpath = "single"
    /\ LET channel == mp.source_channels[mp.mci]
           listing == Listed(mp.dest_ws, mp.lists_private)
           found == FindByName(listing, channel.name, 1)
       IN IF ~list_ok
          THEN /\ outcome = "ok" /\ join_ok
               /\ mp' = [mp EXCEPT
                           !.mlog = Append(@, MapEvent("list", mp.mci, 0,
                                                       channel.name, "error")),
                           !.mpc = AfterChannel[1],
                           !.mci = AfterChannel[2]]
          ELSE IF found # 0
          THEN LET act == ExistingAction(mp.dest_ws[found].is_member, channel.is_private)
                   joined == act = "join" /\ join_ok /\ ~mp.dest_ws[found].is_private
               IN /\ outcome = "ok"
                  /\ (act # "join" \/ mp.dest_ws[found].is_private) => join_ok
                  /\ mp' = [mp EXCEPT
                        !.dest_ws = IF joined THEN Joined(@, found) ELSE @,
                        !.channel_mapping = [@ EXCEPT ![mp.mci] = found],
                        !.mlog = @ \o
                            (IF act = "none" THEN <<>>
                             ELSE <<MapEvent(act, mp.mci, found, channel.name,
                                             IF act = "join" /\ ~joined THEN "error"
                                             ELSE "ok")>>)
                            \o <<MapEvent("map", mp.mci, found, channel.name, "ok")>>,
                        !.mpc = AfterChannel[1],
                        !.mci = AfterChannel[2]]
          ELSE /\ join_ok
               /\ CanAnswerCreate(mp.dest_ws, channel.name, outcome)
               /\ mp' = LET created == Created(mp.dest_ws, channel.name, channel.is_private)
                        IN [mp EXCEPT
                              !.dest_ws = IF outcome = "ok" THEN created ELSE @,
                              !.channel_mapping =
                                  IF outcome = "ok"
                                  THEN [@ EXCEPT ![mp.mci] = Len(created)] ELSE @,
                              !.mlog = Append(@,
                                  MapEvent("create", mp.mci,
                                           IF outcome = "ok" THEN Len(created) ELSE 0,
                                           channel.name, outcome)),
                              !.mpc = AfterChannel[1],
                              !.mci = AfterChannel[2]]

\* _upload_messages: one source channel; a channel without mapping entry is
\* skipped, the stored message of a mapped one is posted
UploadChannelMessages ==
    /\ mp.mpc = "upload"
    /\ mp' = [mp EXCEPT
                !.mlog = IF mp.channel_mapping[mp.mci] # 0
                         THEN Append(@, MapEvent("post", mp.mci, mp.channel_mapping[mp.mci],
                                                 mp.source_channels[mp.mci].name, "ok"))
                         ELSE @,
                !.mpc = IF mp.mci < Len(mp.source_channels) THEN @ ELSE "done",
                !.mci = IF mp.mci < Len(mp.source_channels) THEN @ + 1 ELSE 1]

\* ---- user mapping -----------------------------------------------------------
\* profile.email of a user; "" stands for a user without one
Emails == {"", "ann@example.com", "bob@example.com"}

\* users, by position; no two users of a workspace share an email
UserLists ==
    {l \in UNION {[1..n -> Emails] : n \in {0, 1, 2}} :
        \A i, j \in DOMAIN l : (l[i] # "" /\ l[i] = l[j]) => i = j}

\* dest_users_by_email: a later user replaces an earlier one of the same
\* email; users without email are left out (0 = no key)
DestUsersByEmail(users) ==
    [e \in Emails |->
        IF e # "" /\ \E i \in DOMAIN users : users[i] = e
        THEN CHOOSE i \in DOMAIN users :
                users[i] = e /\ \A j \in DOMAIN users : users[j] = e => j <= i
        ELSE 0]

\* mutant: the first destination user is taken whatever the email
DestIdFirst(source_email, by_email) ==
    IF source_email # "" THEN 1 ELSE 0

\* `if source_email and source_email in dest_users_by_email`: the mapped
\* destination id (0 = no entry is written)
DestIdFor(source_email, by_email) ==
    IF source_email # "" /\ by_email[source_email] # 0
    THEN by_email[source_email]
    ELSE 0

\* no _create_user_mapping call
UsersIdle ==
    um = [user_result |-> "none"]

\* _create_user_mapping: the destination listing, outside any try, and the
\* loop over the source users; an entry once written is never removed
CreateUserMapping(list_ok) ==
    /\ um.user_runs < MaxInvocations
    /\ um.user_result # "raised"
    /\ um' = IF ~list_ok
             THEN [um EXCEPT !.user_runs = @ + 1, !.user_result = "raised"]
             ELSE [um EXCEPT
                     !.user_runs = @ + 1,
                     !.user_result = "done",
                     !.user_mapping =
                         [s \in DOMAIN um.source_users |->
                             LET d == DestIdFor(um.source_users[s],
                                                DestUsersByEmail(um.dest_users))
                             IN IF d # 0 THEN d ELSE @[s]]]

DownloadIdle ==
    /\ disk = [c \in Channels |-> EmptyRecord]
    /\ downloaded_files = {}
    /\ mode = "none"
    /\ force = FALSE
    /\ pc = "idle"
    /\ chan = 1
    /\ oldest = 0
    /\ cursor = 1
    /\ fetched = <<>>
    /\ tidx = 1
    /\ result = "none"
    /\ touched = {}
    /\ merged = {}
    /\ lastEvent = Event("none", 0)
    /\ interruptedAt = 0
    /\ startTs = {}
    /\ plain = TRUE
    /\ runs = 0

UploadIdle ==
    /\ upSel = <<>>
    /\ outgoing = <<>>
    /\ uidx = 1
    /\ thread_mapping = [t \in 1..MaxUpTs |-> 0]
    /\ posts = <<>>
    /\ upc = "idle"

Init ==
    /\ svc \in {s \in [TsRange -> -1..MaxTs] : ValidService(s)}
    /\ pageOrder \in {"newest_first", "oldest_first"}
    /\ DownloadIdle
    /\ upLog = <<>>
    /\ UploadIdle
    /\ max_retries = MaxRetriesBound
    /\ base_rate_limit_delay = Second
    /\ RequestIdle
    /\ AttachmentsIdle
    /\ MappingIdle
    /\ UsersIdle
    /\ ListingIdle

Next ==
    \/ \E f \in BOOLEAN : StartWorkspace(f) /\ UNCHANGED <<upVars, rqVars, atVars, mpVars, umVars, pgVars>>
    \/ \E c \in Channels, f \in BOOLEAN : StartSingle(c, f) /\ UNCHANGED <<upVars, rqVars, atVars, mpVars, umVars, pgVars>>
    \/ BeginChannel /\ UNCHANGED <<upVars, rqVars, atVars, mpVars, umVars, pgVars>>
    \/ \E w \in SaveOutcomes : FetchPage(w) /\ UNCHANGED <<upVars, rqVars, atVars, mpVars, umVars, pgVars>>
    \/ \E w \in SaveOutcomes : FetchThread(w) /\ UNCHANGED <<upVars, rqVars, atVars, mpVars, umVars, pgVars>>
    \/ ThreadsDone /\ UNCHANGED <<upVars, rqVars, atVars, mpVars, umVars, pgVars>>
    \/ /\ pc = "files"
       /\ \E out \in AttemptOutcomes(LoadExisting(chan).messages, downloaded_files),
             w \in SaveOutcomes :
          FinalSaveWorkspace(out, w) /\ UNCHANGED <<upVars, rqVars, atVars, mpVars, umVars, pgVars>>
    \/ /\ pc = "files"
       /\ \E out \in AttemptOutcomes(LoadExisting(chan).messages, downloaded_files),
             w \in SaveOutcomes :
          FinalSaveSingle(out, w) /\ UNCHANGED <<upVars, rqVars, atVars, mpVars, umVars, pgVars>>
    \/ Fail /\ UNCHANGED <<upVars, rqVars, atVars, mpVars, umVars, pgVars>>
    \/ Interrupt /\ UNCHANGED <<upVars, rqVars, atVars, mpVars, umVars, pgVars>>

Spec == Init /\ [][Next]_vars

\* ---- upload: thread reconstruction (_upload_messages) --------------------
UpMsg(t, th, sub, txt) ==
    [ts |-> t, thread_ts |-> th, reply_count |-> 0, subtype |-> sub,
     text |-> txt, file |-> 0, download_status |-> "none",
     should_broadcast |-> FALSE, reactions |-> <<>>]

\* the stored messages an upload may meet: plain, thread parent, empty text,
\* membership event, thread reply, broadcast duplicate of a thread reply
UpUniverse ==
    UNION {
        {UpMsg(t, 0, "none", TRUE), UpMsg(t, t, "none", TRUE),
         UpMsg(t, 0, "none", FALSE), UpMsg(t, 0, "channel_join", TRUE)}
        \cup {UpMsg(t, p, "none", TRUE) : p \in 1..(t - 1)}
        \cup {UpMsg(t, p, "thread_broadcast", TRUE) : p \in 1..(t - 1)}
        : t \in 1..MaxUpTs }

UpLogs ==
    {s \in UNION {[1..n -> UpUniverse] : n \in 0..MaxUpLen} : SortedByTs(s)}

\* the messages of `log` at the positions I, in log order
RECURSIVE SelectFrom(_, _, _)
SelectFrom(log, I, i) ==
    IF i > Len(log) THEN <<>>
    ELSE (IF i \in I THEN <<log[i]>> ELSE <<>>) \o SelectFrom(log, I, i + 1)

IsBroadcast(m) == m.subtype = "thread_broadcast"

\* the pre-scan enters a broadcast duplicate into thread_broadcast_info
RecordsBroadcast(m) == IsBroadcast(m) /\ m.ts # 0 /\ m.thread_ts # 0

\* mutant: every occurrence of a broadcast duplicate is kept
KeepsEveryBroadcast(messages, i) == RecordsBroadcast(messages[i])

\* `message is thread_broadcast_info[msg_ts]["original_message"]`: the first
\* recorded occurrence of its timestamp
KeepsBroadcast(messages, i) ==
    /\ RecordsBroadcast(messages[i])
    /\ \A j \in 1..(i - 1) :
          ~(RecordsBroadcast(messages[j]) /\ messages[j].ts = messages[i].ts)

\* thread_broadcast_info[msg_ts]["thread_ts"]
InfoThreadTs(messages, t) ==
    LET i == CHOOSE k \in DOMAIN messages :
                 messages[k].ts = t /\ KeepsBroadcast(messages, k)
    IN messages[i].thread_ts

\* the filter loop: broadcast duplicates become thread replies or are left out
RECURSIVE FilterFrom(_, _)
FilterFrom(messages, i) ==
    IF i > Len(messages) THEN <<>>
    ELSE LET m == messages[i]
             kept == IF IsBroadcast(m)
                     THEN IF KeepsBroadcast(messages, i)
                          THEN <<[m EXCEPT !.subtype = "none",
                                           !.thread_ts = InfoThreadTs(messages, m.ts),
                                           !.should_broadcast = TRUE]>>
                          ELSE <<>>
                     ELSE <<m>>
         IN kept \o FilterFrom(messages, i + 1)

\* first message of all_messages with this ts that is not a broadcast duplicate
FindParent(all_messages, parent_ts) ==
    LET S == {k \in DOMAIN all_messages :
                 all_messages[k].ts = parent_ts /\ ~IsBroadcast(all_messages[k])}
    IN IF S = {} THEN <<>>
       ELSE <<all_messages[CHOOSE k \in S : \A l \in S : k <= l]>>

RECURSIVE MissingParents(_, _, _)
MissingParents(filtered, all_messages, needed) ==
    IF needed = <<>> THEN <<>>
    ELSE (IF Head(needed) \in TsSet(filtered) THEN <<>>
          ELSE FindParent(all_messages, Head(needed)))
         \o MissingParents(filtered, all_messages, Tail(needed))

\* filtered_messages as posted: filtered, sorted, missing thread parents added
OutgoingSet(messages, all_messages) ==
    LET filtered == SortByTs(FilterFrom(messages, 1))
        thread_parents_needed == {filtered[i].thread_ts : i \in DOMAIN filtered} \ {0}
        missing_parents ==
            MissingParents(filtered, all_messages, Ascending(thread_parents_needed, 0))
    IN IF missing_parents # <<>> THEN SortByTs(filtered \o missing_parents)
       ELSE filtered

\* ---- upload: _upload_single_message_with_files ---------------------------
\* mutant: only the broadcast duplicates are passed over
SkipsBroadcastOnly(m) == IsBroadcast(m)

Skipped(m) ==
    \/ ~m.text
    \/ m.subtype \in {"channel_join", "channel_leave"}
    \/ IsBroadcast(m)

IsReply(m) == m.thread_ts # 0 /\ m.thread_ts # m.ts

\* mutant: a reply without a parent mapping is posted all the same
DropsNoReply(m, mapping) == FALSE

\* mutant: every reply is dropped, mapped parent or not
DropsEveryReply(m, mapping) == IsReply(m)

\* a thread reply whose parent has no mapping is dropped
DropsReply(m, mapping) == IsReply(m) /\ mapping[m.thread_ts] = 0

\* mutant: a reply is posted without thread_ts
NoDestThreadTs(m, mapping) == 0

DestThreadTs(m, mapping) == IF IsReply(m) THEN mapping[m.thread_ts] ELSE 0

\* destination timestamps are handed out in increasing order
NextDestTs == 1 + Cardinality({i \in DOMAIN posts : posts[i].ok})

\* step 1 for the file of a message: _upload_file_for_permalink is called
\* for a file info that carries download_status "success"
Step1Uploads(m) ==
    IF m.file # 0 /\ m.download_status = "success" THEN <<m.file>> ELSE <<>>

\* post_message: thread_ts and reply_broadcast are passed only for a reply;
\* files are the uploads of step 1 that went before the post
PostRequest(m, dest, ok) ==
    [src |-> m, pos |-> uidx, files |-> Step1Uploads(m), thread_ts |-> dest,
     reply_broadcast |-> (dest # 0 /\ m.should_broadcast),
     ok |-> ok, dts |-> IF ok THEN NextDestTs ELSE 0,
     reactions |-> <<>>]

\* _make_request(m) run against the replies rs of the service, one per call
\* attempt, from loop iteration k on; s is the sleep taken after the latest
\* call attempt.  "pending": rs ends before the request does.
RECURSIVE MakeRequestFrom(_, _, _, _)
MakeRequestFrom(m, rs, k, s) ==
    IF k >= max_retries THEN [calls |-> k, raised |-> "exhausted", slept |-> s]
    ELSE IF k >= Len(rs) THEN [calls |-> k, raised |-> "pending", slept |-> s]
    ELSE LET r == rs[k + 1]
             d == Disposition(m, r, k)
         IN IF d = "return" THEN [calls |-> k + 1, raised |-> "none", slept |-> 0]
            ELSE IF d \in {"raise", "propagate"}
            THEN [calls |-> k + 1, raised |-> r.code, slept |-> 0]
            ELSE MakeRequestFrom(m, rs, k + 1,
                                 IF d = "wait" THEN RetryAfter(r) ELSE Backoff(k))

\* what the service may answer to the call attempts of a reaction request
ReactionResponses ==
    {[code |-> c, retry_after |-> 0] :
        c \in {"ok", "invalid_name", "invalid_auth", "internal_error"}}

\* the reply sequences that one add_reaction call consumes, to its end
ReactionRuns ==
    {rs \in UNION {[1..n -> ReactionResponses] : n \in 1..max_retries} :
        LET res == MakeRequestFrom("reactions_add", rs, 0, 0)
        IN res.raised # "pending" /\ res.calls = Len(rs)}

\* dest_client.add_reaction(emoji_name) inside the try of the reaction loop
AddReaction(emoji_name, rs) ==
    LET res == MakeRequestFrom("reactions_add", rs, 0, 0)
    IN [name |-> emoji_name, replies |-> rs, calls |-> res.calls,
        raised |-> res.raised, slept |-> res.slept]

\* mutant: the first failed reaction ends the loop
AddReactionsUntilFailure(reactions, rr) ==
    LET all == [j \in 1..Len(reactions) |-> AddReaction(reactions[j], rr[j])]
        F == {j \in DOMAIN all : all[j].raised # "none"}
    IN IF F = {} THEN all
       ELSE SubSeq(all, 1, CHOOSE j \in F : \A l \in F : j <= l)

\* _add_message_reactions: one add_reaction per entry; an exception of a
\* call is logged and the loop goes on
AddMessageReactions(reactions, rr) ==
    [j \in 1..Len(reactions) |-> AddReaction(reactions[j], rr[j])]

\* upload_workspace_data(data) for one channel: the caller hands over a
\* selection of the stored log as channel_data["messages"] (the positions I:
\* a head slice as messages[:limit] takes, or a tail slice), and
\* _upload_messages reconstructs the outgoing set from it, looking missing
\* parents up in that same list
StartUpload(I) ==
    /\ upc = "idle"
    /\ I \subseteq DOMAIN upLog
    /\ upSel' = SelectFrom(upLog, I, 1)
    /\ outgoing' = IF upSel' = <<>> THEN <<>> ELSE OutgoingSet(upSel', upSel')
    /\ thread_mapping' = [t \in 1..MaxUpTs |-> 0]
    /\ uidx' = 1
    /\ upc' = IF outgoing' = <<>> THEN "done" ELSE "posting"
    /\ UNCHANGED <<upLog, posts>>
    /\ UNCHANGED <<dlVars, rqVars, atVars, mpVars, umVars, pgVars>>

\* mutant: only thread parents are entered into the mapping
UpdateMappingParentsOnly(mapping, message, posted_ts) ==
    IF posted_ts # 0 /\ message.ts # 0 /\ message.thread_ts = message.ts
    THEN [mapping EXCEPT ![message.ts] = posted_ts]
    ELSE mapping

\* `if posted_ts:` ... `if source_ts: thread_mapping[source_ts] = posted_ts`
UpdateMapping(mapping, message, posted_ts) ==
    IF posted_ts # 0 /\ message.ts # 0
    THEN [mapping EXCEPT ![message.ts] = posted_ts]
    ELSE mapping

\* the reply sequences for the reaction calls of one message
ReactionRunSeqs ==
    UNION {[1..n -> ReactionRuns] : n \in {0} \cup {Len(outgoing[i].reactions) : i \in DOMAIN outgoing}}

\* one iteration of the posting loop: the post, then the reactions of the
\* posted message; the call returns after the last iteration
PostMessage(ok, rr) ==
    /\ upc = "posting"
    /\ uidx <= Len(outgoing)
    /\ LET message == outgoing[uidx]
       IN IF Skipped(message) \/ DropsReply(message, thread_mapping)
          THEN /\ ok
               /\ rr = <<>>
               /\ UNCHANGED <<posts, thread_mapping>>
          ELSE LET req == PostRequest(message, DestThreadTs(message, thread_mapping), ok)
               IN /\ Len(rr) = IF ok THEN Len(message.reactions) ELSE 0
                  /\ posts' = Append(posts,
                        [req EXCEPT !.reactions =
                            IF ok THEN AddMessageReactions(message.reactions, rr)
                            ELSE <<>>])
                  /\ thread_mapping' = UpdateMapping(thread_mapping, message, req.dts)
    /\ uidx' = uidx + 1
    /\ upc' = IF uidx' > Len(outgoing) THEN "done" ELSE upc
    /\ UNCHANGED <<upLog, upSel, outgoing>>
    /\ UNCHANGED <<dlVars, rqVars, atVars, mpVars, umVars, pgVars>>

InitUpload ==
    /\ svc = [t \in TsRange |-> -1]
    /\ pageOrder = "oldest_first"
    /\ DownloadIdle
    /\ upLog \in UpLogs
    /\ UploadIdle
    /\ max_retries = MaxRetriesBound
    /\ base_rate_limit_delay = Second
    /\ RequestIdle
    /\ AttachmentsIdle
    /\ MappingIdle
    /\ UsersIdle
    /\ ListingIdle

NextUpload ==
    \/ \E lo \in 1..MaxUpLen, hi \in 0..MaxUpLen :
          (lo = 1 \/ hi = Len(upLog)) /\ StartUpload(lo..hi)
    \/ \E ok \in BOOLEAN, rr \in ReactionRunSeqs : PostMessage(ok, rr)

SpecUpload == InitUpload /\ [][NextUpload]_vars

\* ---- upload of messages that carry reactions ------------------------------
\* the "reactions" list of a stored message, by emoji name
WithReactions(m) == [m EXCEPT !.reactions = <<"thumbsup", "partyparrot">>]

\* a stored message whose file was downloaded
WithFile(m) == [m EXCEPT !.file = 1, !.download_status = "success"]

\* the timestamps of the messages of such a channel
ReactionTs == {1, 2}

\* stored messages: plain and empty text; at the first timestamp also a
\* plain and an empty-text message with reactions and a downloaded file, at
\* the later ones a thread reply with a downloaded file
ReactionUniverse ==
    UNION {
        {UpMsg(t, 0, "none", TRUE), UpMsg(t, 0, "none", FALSE)}
        \cup (IF t = 1
              THEN {WithFile(WithReactions(UpMsg(t, 0, "none", TRUE))),
                    WithFile(WithReactions(UpMsg(t, 0, "none", FALSE)))}
              ELSE {WithFile(UpMsg(t, p, "none", TRUE)) : p \in 1..(t - 1)})
        : t \in ReactionTs }

\* logs as the download store keeps them: ascending, one message per timestamp
ReactionLogs ==
    {s \in UNION {[1..n -> ReactionUniverse] : n \in 0..Cardinality(ReactionTs)} :
        \A i \in 1..(Len(s) - 1) : s[i].ts < s[i + 1].ts}

InitReactions ==
    /\ svc = [t \in TsRange |-> -1]
    /\ pageOrder = "oldest_first"
    /\ DownloadIdle
    /\ upLog \in ReactionLogs
    /\ UploadIdle
    /\ max_retries = MaxRetriesBound
    /\ base_rate_limit_delay = Second
    /\ RequestIdle
    /\ AttachmentsIdle
    /\ MappingIdle
    /\ UsersIdle
    /\ ListingIdle

SpecReactions == InitReactions /\ [][NextUpload]_vars

\* ---- the client on its own: requests through one SlackClient ------------
InitRequest ==
    /\ svc = [t \in TsRange |-> -1]
    /\ pageOrder = "oldest_first"
    /\ DownloadIdle
    /\ upLog = <<>>
    /\ UploadIdle
    /\ max_retries \in 0..MaxRetriesBound
    /\ base_rate_limit_delay \in ConfiguredDelays
    /\ RequestIdle
    /\ AttachmentsIdle
    /\ MappingIdle
    /\ UsersIdle
    /\ ListingIdle

NextRequest ==
    \/ \E m \in Methods : StartRequest(m) /\ UNCHANGED <<dlVars, upVars, atVars, mpVars, umVars, pgVars>>
    \/ \E r \in Responses : Attempt(r) /\ UNCHANGED <<dlVars, upVars, atVars, mpVars, umVars, pgVars>>
    \/ Exhausted /\ UNCHANGED <<dlVars, upVars, atVars, mpVars, umVars, pgVars>>

SpecRequest == InitRequest /\ [][NextRequest]_vars

\* ---- one run over a channel whose messages carry attachments --------------
InitMapping ==
    /\ svc = [t \in TsRange |-> -1]
    /\ pageOrder = "oldest_first"
    /\ DownloadIdle
    /\ upLog = <<>>
    /\ UploadIdle
    /\ max_retries = MaxRetriesBound
    /\ base_rate_limit_delay = Second
    /\ RequestIdle
    /\ AttachmentsIdle
    /\ UsersIdle
    /\ ListingIdle
    /\ \E sc \in SourceChannelLists, d \in DestWorkspaces, lp \in BOOLEAN :
          mp = [source_channels |-> sc, dest_ws |-> d, lists_private |-> lp,
                channel_mapping |-> NoMapping, dest_channels |-> <<>>,
                mpath |-> "none", mpc |-> "start", mci |-> 1, invocation |-> 0,
                mlog |-> <<>>]

NextMapping ==
    \/ \E path \in {"workspace", "single"}, fresh \in BOOLEAN :
          InvokeUpload(path, fresh) /\ UNCHANGED <<dlVars, upVars, rqVars, atVars, umVars, pgVars>>
    \/ \E ok \in BOOLEAN :
          ListDestChannels(ok) /\ UNCHANGED <<dlVars, upVars, rqVars, atVars, umVars, pgVars>>
    \/ \E o \in CreateOutcomes :
          CreateChannelsStep(o) /\ UNCHANGED <<dlVars, upVars, rqVars, atVars, umVars, pgVars>>
    \/ \E l \in BOOLEAN, o \in CreateOutcomes, j \in BOOLEAN :
          EnsureChannelStep(l, o, j) /\ UNCHANGED <<dlVars, upVars, rqVars, atVars, umVars, pgVars>>
    \/ UploadChannelMessages /\ UNCHANGED <<dlVars, upVars, rqVars, atVars, umVars, pgVars>>

SpecMapping == InitMapping /\ [][NextMapping]_vars

InitUsers ==
    /\ svc = [t \in TsRange |-> -1]
    /\ pageOrder = "oldest_first"
    /\ DownloadIdle
    /\ upLog = <<>>
    /\ UploadIdle
    /\ max_retries = MaxRetriesBound
    /\ base_rate_limit_delay = Second
    /\ RequestIdle
    /\ AttachmentsIdle
    /\ MappingIdle
    /\ ListingIdle
    /\ \E su \in UserLists, du \in UserLists :
          um = [source_users |-> su, dest_users |-> du,
                user_mapping |-> [s \in DOMAIN su |-> 0],
                user_result |-> "none", user_runs |-> 0]

NextUsers ==
    \E ok \in BOOLEAN :
        CreateUserMapping(ok) /\ UNCHANGED <<dlVars, upVars, rqVars, atVars, mpVars, pgVars>>

SpecUsers == InitUsers /\ [][NextUsers]_vars

InitListing ==
    /\ svc = [t \in TsRange |-> -1]
    /\ pageOrder = "oldest_first"
    /\ DownloadIdle
    /\ upLog = <<>>
    /\ UploadIdle
    /\ max_retries = MaxRetriesBound
    /\ base_rate_limit_delay = Second
    /\ RequestIdle
    /\ AttachmentsIdle
    /\ MappingIdle
    /\ UsersIdle
    /\ \E op \in ListOperations, sizes \in PageSizes :
          pg = [list_op |-> op, page_sizes |-> sizes, page_cursor |-> 0,
                items |-> <<>>, page_requests |-> <<>>, list_state |-> "start"]

NextListing ==
    \/ StartList /\ UNCHANGED <<dlVars, upVars, rqVars, atVars, mpVars, umVars>>
    \/ \E ok \in BOOLEAN :
          RequestPage(ok) /\ UNCHANGED <<dlVars, upVars, rqVars, atVars, mpVars, umVars>>

SpecListing == InitListing /\ [][NextListing]_vars

InitFiles ==
    /\ svc = [t \in TsRange |-> -1]
    /\ pageOrder = "oldest_first"
    /\ DownloadIdle
    /\ upLog = <<>>
    /\ UploadIdle
    /\ max_retries = MaxRetriesBound
    /\ base_rate_limit_delay = Second
    /\ RequestIdle
    /\ MappingIdle
    /\ UsersIdle
    /\ ListingIdle
    /\ \E files \in UNION {[1..n -> FileLists] : n \in {1, 2}},
          before \in SUBSET {[name |-> FileName(f), n |-> k] : f \in FileIds, k \in {0, 1}},
          completed \in BOOLEAN :
          at = [msgFiles |-> files, fsys0 |-> before, earlier |-> completed,
                fsys |-> before, file_cache |-> [f \in FileIds |-> NoPath],
                stored |-> [m \in DOMAIN files |-> <<>>], fpc |-> "download",
                mi |-> 1, fi |-> 1, file_permalinks |-> <<>>, remoteLog |-> <<>>]

NextFiles ==
    \/ DownloadNoFiles /\ UNCHANGED <<dlVars, upVars, rqVars, mpVars, umVars, pgVars>>
    \/ \E o \in DownloadOutcomes : DownloadFile(o) /\ UNCHANGED <<dlVars, upVars, rqVars, mpVars, umVars, pgVars>>
    \/ \E l \in BOOLEAN : UploadFileForPermalink(l) /\ UNCHANGED <<dlVars, upVars, rqVars, mpVars, umVars, pgVars>>
    \/ \E ok \in BOOLEAN : PostWithFiles(ok) /\ UNCHANGED <<dlVars, upVars, rqVars, mpVars, umVars, pgVars>>

SpecFiles == InitFiles /\ [][NextFiles]_vars

\* ---- a download followed by the upload of what it stored ------------------
\* a stored message as json.load hands it to the upload
AsLoaded(m) ==
    [ts |-> m.ts, thread_ts |-> m.thread_ts, reply_count |-> m.reply_count,
     subtype |-> m.subtype, text |-> m.text, file |-> m.file,
     download_status |-> m.download_status,
     should_broadcast |-> m.should_broadcast, reactions |-> <<>>]

\* load_data: every file of the messages directory is parsed and keyed by
\* channel_info["id"], outside any try; a truncated file does not parse, and
\* a record whose channel_info is a final record has no "id".  The first
\* channel is the one that holds messages.
LoadData ==
    /\ upc = "nodata"
    /\ pc = "idle"
    /\ IF \E c \in Channels : disk[c].exists /\ (disk[c].torn \/ disk[c].wrapped)
       THEN /\ upc' = "aborted"
            /\ upLog' = upLog
       ELSE /\ upc' = "idle"
            /\ upLog' = [i \in DOMAIN disk[1].messages |-> AsLoaded(disk[1].messages[i])]
    /\ UNCHANGED <<upSel, outgoing, uidx, thread_mapping, posts>>
    /\ UNCHANGED <<dlVars, rqVars, atVars, mpVars, umVars, pgVars>>

\* one download call is left to make; the upload has no data yet
InitScenario ==
    /\ svc \in {s \in [TsRange -> -1..MaxTs] : ValidService(s)}
    /\ pageOrder \in {"newest_first", "oldest_first"}
    /\ disk = [c \in Channels |-> EmptyRecord]
    /\ downloaded_files = {}
    /\ mode = "none"
    /\ force = FALSE
    /\ pc = "idle"
    /\ chan = 1
    /\ oldest = 0
    /\ cursor = 1
    /\ fetched = <<>>
    /\ tidx = 1
    /\ result = "none"
    /\ touched = {}
    /\ merged = {}
    /\ lastEvent = Event("none", 0)
    /\ interruptedAt = 0
    /\ startTs = {}
    /\ plain = TRUE
    /\ runs = MaxRuns - 1
    /\ upLog = <<>>
    /\ upSel = <<>>
    /\ outgoing = <<>>
    /\ uidx = 1
    /\ thread_mapping = [t \in 1..MaxUpTs |-> 0]
    /\ posts = <<>>
    /\ upc = "nodata"
    /\ max_retries = MaxRetriesBound
    /\ base_rate_limit_delay = Second
    /\ RequestIdle
    /\ AttachmentsIdle
    /\ MappingIdle
    /\ UsersIdle
    /\ ListingIdle

NextScenario ==
    \/ upc = "nodata" /\ Next
    \/ LoadData
    \/ NextUpload

SpecScenario == InitScenario /\ [][NextScenario]_vars

\* ---- upload of several channels: the channel loop of _upload_messages -----
\* the stored logs of a channel: a plain message at the first timestamp, a
\* reply to it at the second, both, or none
ChannelLogs ==
    {<<>>, <<UpMsg(1, 0, "none", TRUE)>>, <<UpMsg(2, 1, "none", TRUE)>>,
     <<UpMsg(1, 0, "none", TRUE), UpMsg(2, 1, "none", TRUE)>>}

\* `dest_channel_id = self.channel_mapping[source_channel_id]`
DestChannelFor(mapping, source_channel_id) == mapping[source_channel_id]

\* mutant: the thread mapping of the channel before is kept
KeptThreadMapping(mapping) == mapping

\* `thread_mapping = {}` inside the loop over the channels
FreshThreadMapping(mapping) == [t \in 1..MaxUpTs |-> 0]

\* one iteration of the loop over messages_data up to the posting loop: a
\* channel without mapping entry and a channel without messages are passed
\* over; for any other the destination channel is fixed, the outgoing
\* sequence is built and the posting loop starts (sent: the source channel,
\* the destination channel and the position of its first post)
BeginUploadChannel ==
    /\ mp.mpc = "upload"
    /\ upc \in {"idle", "done"}
    /\ mp.mci <= Len(mp.messages_data)
    /\ LET source_channel_id == mp.mci
           messages == mp.messages_data[source_channel_id]
       IN IF mp.channel_mapping[source_channel_id] = 0 \/ messages = <<>>
          THEN /\ mp' = [mp EXCEPT !.mci = @ + 1]
               /\ UNCHANGED upVars
          ELSE /\ mp' = [mp EXCEPT
                           !.mci = @ + 1,
                           !.sent = Append(@,
                               [src |-> source_channel_id,
                                dest |-> DestChannelFor(mp.channel_mapping,
                                                        source_channel_id),
                                first |-> Len(posts) + 1])]
               /\ upLog' = messages
               /\ upSel' = messages
               /\ outgoing' = OutgoingSet(messages, messages)
               /\ thread_mapping' = FreshThreadMapping(thread_mapping)
               /\ uidx' = 1
               /\ upc' = IF outgoing' = <<>> THEN "done" ELSE "posting"
               /\ posts' = posts
    /\ UNCHANGED <<dlVars, rqVars, atVars, umVars, pgVars>>

InitChannels ==
    /\ svc = [t \in TsRange |-> -1]
    /\ pageOrder = "oldest_first"
    /\ DownloadIdle
    /\ upLog = <<>>
    /\ UploadIdle
    /\ max_retries = MaxRetriesBound
    /\ base_rate_limit_delay = Second
    /\ RequestIdle
    /\ AttachmentsIdle
    /\ UsersIdle
    /\ ListingIdle
    /\ \E data \in [1..2 -> ChannelLogs], cm \in [1..2 -> 0..2] :
          mp = [mpc |-> "upload", mci |-> 1, messages_data |-> data,
                channel_mapping |-> cm, sent |-> <<>>]

NextChannels ==
    \/ BeginUploadChannel
    \/ \E ok \in BOOLEAN, rr \in ReactionRunSeqs : PostMessage(ok, rr)

SpecChannels == InitChannels /\ [][NextChannels]_vars

\* ---- properties of the download store ------------------------------------
Stored(c) == LoadExisting(c).messages

CarriesFileResults(msgs) ==
    \A i \in DOMAIN msgs : msgs[i].file # 0 => msgs[i].download_status # "none"

\* C1: resume idempotence. A non-forced download that completes after earlier
\* calls were only interrupted between saves stores exactly the timestamps the
\* service holds (top-level messages and thread replies), sorted, no duplicate.
C1_ResumeIdempotence ==
    (plain /\ lastEvent.kind = "completed")
        => /\ TsSet(Stored(lastEvent.ch)) = AllTs(lastEvent.ch)
           /\ NoDuplicateTs(Stored(lastEvent.ch))
           /\ SortedByTs(Stored(lastEvent.ch))

\* C2: a channel download that finishes both passes and attachment processing
\* without error leaves download_completed and files_downloaded true on disk
\* and the attachment download results in the stored messages, through either
\* entry point.
C2_CompletionFlags ==
    lastEvent.kind = "completed"
        => /\ LoadExisting(lastEvent.ch).download_completed
           /\ LoadExisting(lastEvent.ch).files_downloaded
           /\ CarriesFileResults(Stored(lastEvent.ch))

\* C3: dedup invariant. In every persisted state of every channel record no
\* two stored messages share a timestamp.
C3_DedupInvariant ==
    \A c \in Channels : NoDuplicateTs(disk[c].messages)

\* a forced re-download has just saved a page whose timestamps were all stored
C3_Witness ==
    /\ force
    /\ lastEvent.kind = "page"
    /\ merged # {}
    /\ merged \subseteq startTs

\* C4: order invariant. In every persisted state of every channel record the
\* stored timestamps are in non-decreasing order.
C4_OrderInvariant ==
    \A c \in Channels : SortedByTs(disk[c].messages)

\* pages that arrived newest first have just been saved, and so have thread
\* replies older than a stored top-level message
C4_Witness ==
    \/ /\ pageOrder = "newest_first"
       /\ lastEvent.kind = "page"
       /\ Cardinality(merged) >= 2
       /\ Len(disk[chan].messages) >= 2
    \/ /\ lastEvent.kind = "thread"
       /\ \E i, j \in DOMAIN disk[chan].messages :
             /\ i < j
             /\ disk[chan].messages[i].thread_ts \notin {0, disk[chan].messages[i].ts}
             /\ disk[chan].messages[j].thread_ts \in {0, disk[chan].messages[j].ts}

\* C8: after a non-interrupt failure of a channel download is handled, the
\* record on disk holds the partial log captured so far and an error
\* annotation, and download_completed is not true.
C8_FailureAnnotated ==
    lastEvent.kind = "failed"
        => /\ LoadExisting(lastEvent.ch).error
           /\ ~LoadExisting(lastEvent.ch).download_completed
           /\ merged \subseteq TsSet(Stored(lastEvent.ch))

\* C9: after an interrupt during a channel download that has persisted at
\* least one batch in this call, the record on disk still contains every
\* batch merged before, download_completed is false, and the caller receives
\* the interrupt.
C9_InterruptKeepsProgress ==
    (interruptedAt # 0 /\ merged # {})
        => /\ merged \subseteq TsSet(Stored(interruptedAt))
           /\ ~LoadExisting(interruptedAt).download_completed
           /\ result = "interrupted"

\* C10: an interrupt while download_workspace_data is downloading channel k
\* stops the run: the call does not return normally and no remote call or
\* file write is made for any later channel.
C10_InterruptStopsRun ==
    (mode = "workspace" /\ interruptedAt # 0)
        => /\ pc = "idle"
           /\ result = "interrupted"
           /\ \A c \in touched : c <= interruptedAt

\* the interrupt arrived during a channel that is not the last one
C10_Witness ==
    /\ mode = "workspace"
    /\ interruptedAt # 0
    /\ interruptedAt < NumChannels
    /\ interruptedAt \in touched

ReturnedTs ==
    TsSet(fetched) \cup
    UNION {TsSet(GetThreadReplies(chan, fetched[i].ts)) :
              i \in {j \in DOMAIN fetched : fetched[j].reply_count > 0 /\ fetched[j].ts # 0}}

\* C27: whenever the final save of a channel download writes a record with
\* download_completed = true, the stored log of that record contains every
\* message the service returned for the channel during the download, history
\* pages and thread replies alike.
C27_AccurateCompletion ==
    [][(pc = "files" /\ disk' # disk /\ disk'[chan].download_completed)
          => ReturnedTs \subseteq TsSet(disk'[chan].messages)]_vars

\* destination timestamp of the latest successful post, before request i, of
\* a message whose source timestamp is t (0 when there is none)
DestOfSourceBefore(t, i) ==
    LET S == {j \in 1..(i - 1) : posts[j].ok /\ posts[j].src.ts = t}
    IN IF S = {} THEN 0 ELSE posts[CHOOSE j \in S : \A k \in S : k <= j].dts

\* ---- properties of the attachment handling ------------------------------
\* the positions in the log of the calls of a kind made for message m
CallsFor(kind, m) ==
    {q \in DOMAIN at.remoteLog : at.remoteLog[q].kind = kind /\ at.remoteLog[q].msg = m}

\* C21: every file upload is issued without a destination channel; the
\* uploads made for a message all precede the post of that message; and the
\* posted text carries the references of exactly the attachments whose upload
\* succeeded, in their order.
C21_TwoPhaseUpload ==
    /\ \A q \in DOMAIN at.remoteLog :
          at.remoteLog[q].kind = "upload" => at.remoteLog[q].channel = 0
    /\ \A m \in DOMAIN at.msgFiles : \A p \in CallsFor("post", m) :
          /\ \A q \in CallsFor("upload", m) : q < p
          /\ \A i \in 1..Len(at.msgFiles[m]) :
                (\E k \in DOMAIN at.remoteLog[p].links : at.remoteLog[p].links[k] = i)
                    <=> \E q \in CallsFor("upload", m) :
                           at.remoteLog[q].idx = i /\ at.remoteLog[q].outcome = "ok"
          /\ \A k, l \in DOMAIN at.remoteLog[p].links :
                k < l => at.remoteLog[p].links[k] < at.remoteLog[p].links[l]

\* a message with two attachments is posted: the upload of the first one
\* gave a permalink, the upload of the second one failed
C21_Witness ==
    \E p \in DOMAIN at.remoteLog :
        /\ at.remoteLog[p].kind = "post" /\ at.remoteLog[p].links = <<1>>
        /\ Cardinality(CallsFor("upload", at.remoteLog[p].msg)) = 2

\* the local paths of the stored file entries marked as downloaded
StoredPaths ==
    UNION {{at.stored[m][i].local_path :
                i \in {j \in DOMAIN at.stored[m] : at.stored[m][j].download_status = "success"}} :
           m \in DOMAIN at.stored}

\* C22: an attachment whose download failed is stored as failed and without
\* local path, and nothing of it is left on disk; every attachment gets its
\* entry, so the download runs to its end; on upload no file upload is made
\* for it, the text of the owning message carries no reference to it, and
\* the message is posted all the same.
C22_AttachmentFailureIsolated ==
    /\ \A q \in DOMAIN at.remoteLog :
          (at.remoteLog[q].kind = "get" /\ at.remoteLog[q].outcome # "ok")
              => at.stored[at.remoteLog[q].msg][at.remoteLog[q].idx].download_status = "failed"
    /\ \A m \in DOMAIN at.stored : \A i \in DOMAIN at.stored[m] :
          at.stored[m][i].download_status = "failed"
              => /\ at.stored[m][i].local_path = NoPath
                 /\ \A q \in CallsFor("upload", m) : at.remoteLog[q].idx # i
                 /\ \A p \in CallsFor("post", m) :
                       \A k \in DOMAIN at.remoteLog[p].links : at.remoteLog[p].links[k] # i
    /\ at.fsys = at.fsys0 \cup StoredPaths
    /\ at.fpc \in {"upload", "done"}
          => \A m \in DOMAIN at.msgFiles : Len(at.stored[m]) = Len(at.msgFiles[m])
    /\ at.fpc = "done"
          => \A m \in DOMAIN at.msgFiles : Cardinality(CallsFor("post", m)) = 1

\* the requests made for the body of file f, by position in the log
GetsOf(f) ==
    {q \in DOMAIN at.remoteLog : at.remoteLog[q].kind = "get" /\ at.remoteLog[q].file = f}

\* the stored entries that refer to file f
EntriesOf(f) ==
    {e \in UNION {{at.stored[m][i] : i \in DOMAIN at.stored[m]} : m \in DOMAIN at.stored} :
        e.id = f}

\* C23 as stated: within one run the body of a file identifier is requested
\* at most once, whatever the references to it.
C23_RequestedAtMostOnce ==
    \A f \in FileIds : Cardinality(GetsOf(f)) <= 1

\* C23 amended: within one run the body of a file identifier is downloaded
\* successfully at most once; after that download no further request is made
\* for the identifier, and every reference stored as downloaded carries the
\* path kept in the cache.
C23_DownloadedAtMostOnce ==
    \A f \in FileIds :
        /\ \A q1, q2 \in GetsOf(f) :
              (q1 < q2) => at.remoteLog[q1].outcome # "ok"
        /\ \A e \in EntriesOf(f) :
              e.download_status = "success" => e.local_path = at.file_cache[f]

\* one identifier referenced by two attachments: requested once, with
\* success, and both entries are stored as downloaded
C23_Witness ==
    /\ at.fpc = "done"
    /\ \E f \in FileIds :
          /\ Cardinality(GetsOf(f)) = 1
          /\ \E m1, m2 \in DOMAIN at.stored :
                \E i1 \in DOMAIN at.stored[m1], i2 \in DOMAIN at.stored[m2] :
                    /\ <<m1, i1>> # <<m2, i2>>
                    /\ at.stored[m1][i1].id = f /\ at.stored[m2][i2].id = f
                    /\ at.stored[m1][i1].download_status = "success"
                    /\ at.stored[m2][i2].download_status = "success"

\* C28: every remote call made during download and upload, the file uploads
\* that obtain permalinks included, is issued through the client's request
\* path.
C28_SingleChokePoint ==
    \A q \in DOMAIN at.remoteLog : at.remoteLog[q].via = "client"

\* ---- properties of the channel and user mapping ---------------------------
\* the positions in the log of the events of a kind
EventsOf(op) == {q \in DOMAIN mp.mlog : mp.mlog[q].op = op}

\* C24: a channel-create request is issued only for a name that no
\* destination channel already has, and at most once per distinct name within
\* one mapping step; no two destination channels share a name, and source
\* channels of one name are mapped to the same destination channel.
C24_OneChannelPerName ==
    /\ \A q \in EventsOf("create") : mp.mlog[q].outcome # "name_taken"
    /\ \A q1, q2 \in EventsOf("create") :
          (mp.mlog[q1].inv = mp.mlog[q2].inv /\ mp.mlog[q1].name = mp.mlog[q2].name) => q1 = q2
    /\ \A i, j \in DOMAIN mp.dest_ws : mp.dest_ws[i].name = mp.dest_ws[j].name => i = j
    /\ mp.mpc \in {"upload", "done"} =>
          \A c1, c2 \in DOMAIN mp.source_channels :
              mp.source_channels[c1].name = mp.source_channels[c2].name
                  => mp.channel_mapping[c1] = mp.channel_mapping[c2]

\* the events of a kind recorded for destination channel id in invocation k
EventsFor(op, id, k) ==
    {q \in EventsOf(op) : mp.mlog[q].id = id /\ mp.mlog[q].inv = k}

\* C25: no join request is issued for a private destination channel; an
\* existing public destination channel that a source channel is mapped to
\* while the credential is not a member of it has been sent a join request;
\* an existing private one lacking membership is flagged and not joined, and
\* nothing else is flagged.
C25_PrivateNeverJoined ==
    /\ \A q \in EventsOf("join") : ~mp.dest_ws[mp.mlog[q].id].is_private
    /\ \A q \in EventsOf("map") :
          LET d == mp.dest_ws[mp.mlog[q].id]
          IN ~d.is_member =>
                IF d.is_private
                THEN /\ EventsFor("flag", d.id, mp.mlog[q].inv) # {}
                     /\ EventsFor("join", d.id, mp.mlog[q].inv) = {}
                ELSE EventsFor("join", d.id, mp.mlog[q].inv) # {}
    /\ \A q \in EventsOf("flag") : mp.dest_ws[mp.mlog[q].id].is_private

\* the destination channel invocation k mapped source channel c to (0 = none)
MappedIn(k, c) ==
    LET hits == {q \in DOMAIN mp.mlog :
                    /\ mp.mlog[q].inv = k /\ mp.mlog[q].src = c /\ mp.mlog[q].outcome = "ok"
                    /\ mp.mlog[q].op \in {"map", "create"}}
    IN IF hits = {} THEN 0 ELSE mp.mlog[CHOOSE q \in hits : TRUE].id

\* the posts invocation k made for the stored message of source channel c
PostsIn(k, c) ==
    {q \in EventsOf("post") : mp.mlog[q].inv = k /\ mp.mlog[q].src = c}

C30_UserMapping ==
    um.user_result = "done" =>
        \A s \in DOMAIN um.source_users :
            /\ \A d \in DOMAIN um.dest_users :
                  um.user_mapping[s] = d
                      <=> (um.source_users[s] # "" /\ um.source_users[s] = um.dest_users[d])
            /\ (\A d \in DOMAIN um.dest_users :
                    um.source_users[s] = "" \/ um.source_users[s] # um.dest_users[d])
                  => um.user_mapping[s] = 0

\* the step completed with one source user mapped to the second destination
\* user and another source user, whose email no destination user has, left
\* without entry
C30_Witness ==
    /\ um.user_result = "done"
    /\ \E s1, s2 \in DOMAIN um.source_users :
          /\ um.user_mapping[s1] = 2
          /\ um.source_users[s2] # ""
          /\ um.user_mapping[s2] = 0

\* ---- properties of the list methods ----------------------------------------
RECURSIVE ItemsThrough(_, _)
\* the items of the pages up to page k, in page order
ItemsThrough(sizes, k) ==
    IF k = 0 THEN <<>> ELSE ItemsThrough(sizes, k - 1) \o PageItems(sizes, k)

\* C29: a list method requests the first page without cursor and every
\* further page with the cursor the page before it carried, one request per
\* page; it holds the items of the pages requested so far in page order, and
\* it returns exactly when the page without cursor has arrived, with the items
\* of every page.
C29_Pagination ==
    /\ \A k \in DOMAIN pg.page_requests :
          pg.page_requests[k] = IF k = 1 THEN 0 ELSE CursorOf(k)
    /\ pg.list_state \in {"loop", "returned"} =>
          pg.items = ItemsThrough(pg.page_sizes, Len(pg.page_requests))
    /\ pg.list_state = "loop" => Len(pg.page_requests) < Len(pg.page_sizes)
    /\ pg.list_state = "returned" => Len(pg.page_requests) = Len(pg.page_sizes)

\* the channel history arrived in three pages, the second of them empty, and
\* the method returned the three items of the first and the third page
C29_Witness ==
    /\ pg.list_state = "returned"
    /\ pg.list_op = "conversations_history"
    /\ pg.page_sizes = <<2, 0, 1>>
    /\ pg.items = <<1, 2, 3>>
    /\ pg.page_requests = <<0, CursorOf(2), CursorOf(3)>>

\* ---- properties of the request client -----------------------------------
\* C13: the start of every call attempt, first or retry, lies at least the
\* operation's delay (its table entry, else the configured default) after the
\* start of the previous call attempt to the same operation by this client.
C13_RateLimiterFloor ==
    (calls > 0 /\ gap # -1) => gap >= get_method_delay(method)

\* a retry of a history request after a backoff shorter than the delay
C13_Witness ==
    /\ method = "conversations_history" /\ calls = 2 /\ attempt = 1
    /\ lastResp.code = "ok" /\ rq = "returned"
    /\ Backoff(0) < HistoryDelay /\ gap >= HistoryDelay

\* C14: a call attempt answered with an authentication error ends the
\* request at once: the error is surfaced to the caller, no sleep follows it
\* and no further attempt is made, whatever is left of the attempt budget.
C14_AuthFailsFast ==
    (calls > 0 /\ lastResp.code \in AuthCodes)
        => /\ rq = "raised"
           /\ raised = lastResp.code
           /\ slept = 0

\* the second call attempt of a request meets a revoked token while attempts
\* are left in the budget
C14_Witness ==
    /\ lastResp.code = "token_revoked" /\ calls = 2 /\ max_retries > 2
    /\ rq = "raised" /\ raised = "token_revoked"

\* C15: after a rate-limited reply the client sleeps for the Retry-After
\* duration the service sent (the default when it sent none), the attempt is
\* counted against the budget like any other, and the request fails only once
\* max_retries call attempts have been made.
C15_RateLimitedWait ==
    /\ (calls > 0 /\ lastResp.code \in RateLimitCodes)
          => /\ slept = IF lastResp.retry_after # 0
                        THEN lastResp.retry_after
                        ELSE DefaultRetryAfter
             /\ attempt = calls
             /\ rq = "raised" => (raised = "exhausted" /\ calls = max_retries)
    /\ raised = "exhausted" => calls = max_retries

\* C16: an error that is neither a rate limit, nor an authentication error,
\* nor an emoji validation error of reactions_add is retried: after failed
\* attempt k the client sleeps 2^k seconds and tries again, it makes at most
\* max_retries call attempts, a successful attempt returns its response, and
\* the error is surfaced exactly when the failed attempt was the last of the
\* budget.
C16_BackoffUntilExhausted ==
    /\ calls <= max_retries
    /\ rq = "returned" => lastResp.code = "ok"
    /\ (calls > 0 /\ lastResp.code = "ok") => rq = "returned"
    /\ (/\ calls > 0
        /\ \/ lastResp.code \in OtherCodes \cup TransportErrors
           \/ lastResp.code \in EmojiCodes /\ method # "reactions_add")
          => IF calls < max_retries
             THEN rq = "loop" /\ attempt = calls /\ slept = Backoff(calls - 1)
             ELSE rq = "raised" /\ raised = lastResp.code

\* C17: a reaction request that meets an emoji validation error ends with
\* that call attempt - the error is surfaced, no sleep and no further attempt
\* follows, so an error on the first attempt costs exactly one call - and the
\* message the reaction belongs to stays posted and mapped.
C17_EmojiErrorNonFatal ==
    \A i \in DOMAIN posts : \A j \in DOMAIN posts[i].reactions :
        LET rc == posts[i].reactions[j]
            E == {k \in DOMAIN rc.replies : rc.replies[k].code \in EmojiCodes}
        IN E # {}
              => /\ rc.raised \in EmojiCodes
                 /\ \A k \in E : rc.calls = k
                 /\ rc.slept = 0
                 /\ posts[i].ok /\ posts[i].dts # 0
                 /\ thread_mapping[posts[i].src.ts] = posts[i].dts

\* the first reaction of a message fails with invalid_name on its only call
\* attempt, the second is added, and a later reply is attached to the message
C17_Witness ==
    /\ max_retries > 1 /\ Len(posts) >= 2
    /\ Len(posts[1].reactions) = 2
    /\ posts[1].reactions[1].raised = "invalid_name"
    /\ posts[1].reactions[1].calls = 1
    /\ posts[1].reactions[2].raised = "none"
    /\ posts[2].ok /\ posts[2].thread_ts = posts[1].dts

\* C18: reaction calls are made only for a message whose post succeeded, as
\* part of that message's step and so before the next post, one call per
\* reaction entry of the source message in entry order; whichever of them
\* fail, all of them are made and the destination timestamp of the message is
\* recorded in the thread mapping.
C18_ReactionsBestEffort ==
    \A i \in DOMAIN posts :
        /\ posts[i].reactions # <<>> => posts[i].ok
        /\ posts[i].ok
              => /\ Len(posts[i].reactions) = Len(posts[i].src.reactions)
                 /\ \A j \in DOMAIN posts[i].reactions :
                       /\ posts[i].reactions[j].name = posts[i].src.reactions[j]
                       /\ posts[i].reactions[j].calls >= 1
                 /\ thread_mapping[posts[i].src.ts] = posts[i].dts

\* the first reaction fails for good after the whole attempt budget, the
\* second one fails on an authentication error, and the next message is posted
C18_Witness ==
    /\ Len(posts) >= 2 /\ posts[1].ok
    /\ Len(posts[1].reactions) = 2
    /\ posts[1].reactions[1].raised = "internal_error"
    /\ posts[1].reactions[1].calls = max_retries
    /\ posts[1].reactions[2].raised = "invalid_auth"
    /\ thread_mapping[posts[1].src.ts] = posts[1].dts
    /\ posts[2].pos > posts[1].pos

\* C19: the posts of a channel upload are issued one per step of the posting
\* loop, in the order of the outgoing sequence and in non-decreasing order of
\* source timestamp, and a post of a thread parent precedes every post of a
\* reply to it.
C19_PostOrder ==
    /\ \A i, j \in DOMAIN posts :
          i < j => /\ posts[i].pos < posts[j].pos
                   /\ posts[i].src.ts <= posts[j].src.ts
    /\ \A i, j \in DOMAIN posts :
          (IsReply(posts[i].src) /\ posts[j].src.ts = posts[i].src.thread_ts)
              => j < i
    /\ \A i \in DOMAIN posts : posts[i].pos < uidx

\* a parent, a reply to it and a later message were posted, in that order
C19_Witness ==
    /\ Len(posts) = 3
    /\ posts[1].ok /\ posts[2].ok /\ posts[3].ok
    /\ IsReply(posts[2].src)
    /\ posts[2].src.thread_ts = posts[1].src.ts
    /\ posts[2].src.ts < posts[3].src.ts

\* C20: for every source timestamp the thread mapping holds the destination
\* timestamp of the latest successful post of a message with that timestamp,
\* and no entry when there is none - an entry is never made for a skipped
\* message or a failed post; a reply that was passed over because its parent
\* had no mapping has no post, and no position of the outgoing sequence is
\* visited again.
C20_MappingDiscipline ==
    /\ \A t \in DOMAIN thread_mapping :
          thread_mapping[t] = DestOfSourceBefore(t, Len(posts) + 1)
    /\ \A i \in DOMAIN posts :
          /\ posts[i].pos < uidx
          /\ \A j \in DOMAIN posts : posts[i].pos = posts[j].pos => i = j
    /\ \A k \in 1..(uidx - 1) :
          (/\ k <= Len(outgoing)
           /\ IsReply(outgoing[k])
           /\ ~\E j \in DOMAIN posts :
                 /\ posts[j].pos < k /\ posts[j].ok
                 /\ posts[j].src.ts = outgoing[k].thread_ts)
              => \A j \in DOMAIN posts : posts[j].pos # k

\* a plain message is posted and mapped, the post of a second one fails and
\* leaves no entry, and the reply to the second one is passed over
C20_Witness ==
    /\ upc = "done" /\ Len(outgoing) = 3 /\ Len(posts) = 2
    /\ posts[1].ok /\ thread_mapping[posts[1].src.ts] = posts[1].dts
    /\ posts[1].src.thread_ts = 0
    /\ ~posts[2].ok /\ thread_mapping[posts[2].src.ts] = 0
    /\ IsReply(outgoing[3]) /\ ~Skipped(outgoing[3])
    /\ outgoing[3].thread_ts = posts[2].src.ts

\* ---- properties of the thread reconstruction -----------------------------
\* C5: thread integrity. Every post issued for a reply carries as thread_ts
\* the destination timestamp recorded for its source parent in this channel
\* upload; a reply whose parent has no mapping is not posted, and a reply is
\* never posted as a top-level message.
C5_ThreadIntegrity ==
    \A i \in DOMAIN posts :
        IsReply(posts[i].src)
            => /\ posts[i].thread_ts # 0
               /\ posts[i].thread_ts = DestOfSourceBefore(posts[i].src.thread_ts, i)

\* a reply was posted under its parent, and another reply was dropped
C5_Witness ==
    /\ \E i \in DOMAIN posts : IsReply(posts[i].src) /\ posts[i].ok
    /\ \E k \in 1..(uidx - 1) :
          /\ k <= Len(outgoing)
          /\ IsReply(outgoing[k])
          /\ ~Skipped(outgoing[k])
          /\ \A i \in DOMAIN posts : posts[i].pos # k

\* C6: thread parents are always pulled in. After reconstruction every reply
\* of the outgoing set whose parent is in the channel's stored log has that
\* parent in the outgoing set, whatever partial selection was handed over.
C6_ParentsPulledIn ==
    upc # "idle"
        => \A i \in DOMAIN outgoing :
              (IsReply(outgoing[i]) /\ FindParent(upLog, outgoing[i].thread_ts) # <<>>)
                  => outgoing[i].thread_ts \in TsSet(outgoing)

BroadcastCopies(t) == {i \in DOMAIN upSel : RecordsBroadcast(upSel[i]) /\ upSel[i].ts = t}

\* C7: broadcast dedup. Of k >= 1 broadcast duplicates sharing a timestamp
\* exactly one is in the outgoing set, without the thread_broadcast subtype
\* and with its parent thread_ts; it is posted at most once, as a thread reply
\* with reply_broadcast set, and no other occurrence is posted.
C7_BroadcastDedup ==
    upc # "idle"
        => \A t \in 1..MaxUpTs :
              BroadcastCopies(t) # {}
                  => /\ Cardinality({j \in DOMAIN outgoing :
                            outgoing[j].ts = t /\ outgoing[j].should_broadcast}) = 1
                     /\ \A j \in DOMAIN outgoing :
                            (outgoing[j].ts = t /\ outgoing[j].should_broadcast)
                                => /\ outgoing[j].subtype = "none"
                                   /\ \E c \in BroadcastCopies(t) :
                                         /\ \A d \in BroadcastCopies(t) : c <= d
                                         /\ outgoing[j].thread_ts = upSel[c].thread_ts
                     /\ \A j \in DOMAIN outgoing : ~IsBroadcast(outgoing[j])
                     /\ Cardinality({i \in DOMAIN posts :
                            posts[i].src.ts = t /\ posts[i].src.should_broadcast}) <= 1
                     /\ \A i \in DOMAIN posts :
                            (posts[i].src.ts = t /\ posts[i].src.should_broadcast)
                                => posts[i].thread_ts # 0 /\ posts[i].reply_broadcast

\* several broadcast duplicates of one reply were handed over with the parent,
\* and the surviving one has been posted
C7_Witness ==
    /\ upc = "done"
    /\ \E t \in 1..MaxUpTs :
          /\ Cardinality(BroadcastCopies(t)) >= 2
          /\ \E i \in DOMAIN posts :
                posts[i].ok /\ posts[i].src.ts = t /\ posts[i].reply_broadcast

\* ---- properties of a download followed by an upload -----------------------
\* the source channel holds top-level messages without replies only
AllPlain == \A t \in TsRange : svc[t] <= 0

\* download_workspace_data returned and nothing failed on its way
FullDownload == mode = "workspace" /\ result = "returned" /\ plain

\* the whole stored log was handed to the upload, the upload is through and
\* every post was accepted
FullUpload ==
    /\ upc = "done"
    /\ upSel = upLog
    /\ \A i \in DOMAIN posts : posts[i].ok

\* C31: for a channel of n plain messages, in whatever page order the
\* service returns them, a full download followed by an upload without
\* failures issues exactly n posts, one per source message, in ascending
\* source-timestamp order
C31_PlainScenario ==
    (AllPlain /\ FullDownload /\ FullUpload)
        => LET source == Ascending(AllTs(1), 0)
           IN /\ Len(posts) = Len(source)
              /\ \A i \in DOMAIN posts : posts[i].src.ts = source[i]

C31_Witness ==
    /\ AllPlain /\ FullDownload /\ FullUpload
    /\ pageOrder = "newest_first"
    /\ Len(posts) = MaxTs

\* positions of the posts issued for the source timestamp t
PostsOf(t) == {i \in DOMAIN posts : posts[i].src.ts = t}

\* the top-level messages of the first channel that have replies
Parents == {p \in TsRange : svc[p] = 0 /\ ReplyCount(1, p) > 0}

\* C32: for a top-level message with reply_count r > 0, without failures,
\* the download stores all r replies, and the upload posts the parent and
\* then all r replies, each reply with thread_ts equal to the destination
\* timestamp returned for the parent's post
C32_ThreadScenario ==
    /\ FullDownload =>
          \A p \in Parents : \A r \in TsRange :
              svc[r] = p => r \in TsSet(disk[1].messages)
    /\ (FullDownload /\ FullUpload) =>
          \A p \in Parents :
              /\ Cardinality(PostsOf(p)) = 1
              /\ \A r \in TsRange : svc[r] = p =>
                    /\ Cardinality(PostsOf(r)) = 1
                    /\ \A i \in PostsOf(p), j \in PostsOf(r) :
                          /\ i < j
                          /\ posts[i].dts # 0
                          /\ posts[i].thread_ts = 0
                          /\ posts[j].thread_ts = posts[i].dts

C32_Witness ==
    /\ FullDownload /\ FullUpload
    /\ Parents # {}
    /\ \E j \in DOMAIN posts : posts[j].thread_ts # 0

\* ---- further properties of the download store ------------------------------
\* C33: during the top-level pass, after each non-empty page is fetched and
\* before the next page is requested, the channel's record on disk holds the
\* timestamp-set union of the log it held before and that page, sorted
\* ascending, with download_completed = false
C33_PerBatchPersistence ==
    [][(pc = "history" /\ lastEvent' = Event("page", chan)
            /\ HistoryPage(chan, oldest, cursor) # <<>>)
          => /\ disk'[chan].exists /\ ~disk'[chan].torn
             /\ TsSet(disk'[chan].messages) =
                   TsSet(Stored(chan)) \cup TsSet(HistoryPage(chan, oldest, cursor))
             /\ SortedByTs(disk'[chan].messages)
             /\ NoDuplicateTs(disk'[chan].messages)
             /\ ~disk'[chan].download_completed]_vars

\* C34: a non-forced download of a channel whose stored log is non-empty and
\* not completed issues its history fetch with the oldest-timestamp parameter
\* equal to the maximum timestamp stored when it began (startTs), and no
\* message stored at that moment is returned to it again; with no stored
\* message, or with force, the fetch carries no oldest-timestamp parameter
C34_ResumePoint ==
    pc \in {"history", "threads", "files"} =>
        /\ IF ~force /\ startTs # {}
           THEN oldest \in startTs /\ \A t \in startTs : t <= oldest
           ELSE oldest = 0
        /\ ~force => /\ ReturnedTs \cap startTs = {}
                     /\ \A t \in ReturnedTs : t > oldest

C34_Witness ==
    /\ pc = "threads"
    /\ ~force
    /\ oldest # 0
    /\ startTs # {}
    /\ fetched # <<>>

\* C35: the thread pass starts only after the last top-level page was
\* received; each thread fetch is for a fetched message with reply_count > 0;
\* the replies it returns are the thread's replies without the parent, and
\* once they were handed to the save callback every reply of the thread is in
\* the stored log, which holds the parent once
C35_ThreadReplyPass ==
    /\ [](pc = "threads" =>
            /\ cursor = NumPages(chan, oldest)
            /\ Len(fetched) = Len(HistorySeq(chan, oldest)))
    /\ [][(pc = "threads" /\ lastEvent' = Event("thread", chan))
            => LET parent == fetched[NextThread]
                   thread_replies == GetThreadReplies(chan, parent.ts)
               IN /\ parent.reply_count > 0
                  /\ TsSet(thread_replies) =
                        {r \in TsRange : ChannelSvc(chan)[r] = parent.ts}
                  /\ TsSet(thread_replies) \subseteq TsSet(disk'[chan].messages)
                  /\ NoDuplicateTs(disk'[chan].messages)]_vars

\* ---- further properties of the attachments ----------------------------------
\* the request a step has just added to the log is a GET that ended this way
JustGot(outcome) ==
    /\ Len(at'.remoteLog) = Len(at.remoteLog) + 1
    /\ at'.remoteLog[Len(at'.remoteLog)].kind = "get"
    /\ at'.remoteLog[Len(at'.remoteLog)].outcome = outcome

\* C36: a downloaded attachment is written to a path that did not exist when
\* its download started, the name itself or else the name with the lowest
\* free suffix _1, _2, ..., and no file present before is overwritten or
\* deleted by a download, a failed one whose partial file is removed included
C36_NameCollision ==
    [][/\ at.fsys \subseteq at'.fsys
       /\ JustGot("ok") =>
             \E path \in at'.fsys \ at.fsys :
                 /\ at'.fsys = at.fsys \cup {path}
                 /\ path.name = FileName(at.msgFiles[at.mi][at.fi])
                 /\ \A k \in 0..(path.n - 1) : [name |-> path.name, n |-> k] \in at.fsys
                 /\ at'.stored[at.mi][at.fi].local_path = path
       /\ (JustGot("write_error") \/ JustGot("http_error")) => at'.fsys = at.fsys]_vars

C36_Witness ==
    /\ \E path \in at.fsys \ at.fsys0 : path.n >= 1
    /\ \E q \in DOMAIN at.remoteLog :
          at.remoteLog[q].kind = "get" /\ at.remoteLog[q].outcome = "write_error"
    /\ at.fsys0 \subseteq at.fsys

\* the timestamps a record on disk yields when it is loaded
PersistedTs(rec) == IF rec.exists /\ ~rec.torn THEN TsSet(rec.messages) ELSE {}

\* C37: across any sequence of download operations the set of timestamps in
\* a channel's persisted log never loses an element that an earlier
\* persisted state of the same record contained
C37_StoredLogMonotone ==
    [][\A c \in Channels : PersistedTs(disk[c]) \subseteq PersistedTs(disk'[c])]_vars

\* ---- further properties of the upload ---------------------------------------
\* a post request was issued for position k of the outgoing sequence
Attempted(k) == \E i \in DOMAIN posts : posts[i].pos = k

\* the parent of the reply at position k was posted before it
ParentPosted(k) ==
    \E i \in DOMAIN posts :
        posts[i].pos < k /\ posts[i].ok /\ posts[i].src.ts = outgoing[k].thread_ts

\* C38: a failed post does not end the channel upload: every later message of
\* the outgoing sequence is still gone through, and a message with text that
\* is no membership event is left without a post request only when it is a
\* reply whose parent was not posted
C38_UploadFailureIsolation ==
    /\ upc = "done" => uidx = Len(outgoing) + 1
    /\ \A k \in 1..(uidx - 1) :
          k \in DOMAIN outgoing =>
              (Attempted(k) <=>
                  /\ ~Skipped(outgoing[k])
                  /\ IsReply(outgoing[k]) => ParentPosted(k))

C38_Witness ==
    /\ upc = "done"
    /\ \E i, j \in DOMAIN posts :
          /\ ~posts[i].ok
          /\ posts[j].pos > posts[i].pos
          /\ posts[j].ok
    /\ \E k \in DOMAIN outgoing :
          /\ IsReply(outgoing[k]) /\ ~Skipped(outgoing[k]) /\ ~Attempted(k)
          /\ \E i \in DOMAIN posts : ~posts[i].ok /\ posts[i].src.ts = outgoing[k].thread_ts

\* ---- further properties of the upload of messages with reactions ----------
\* the message at position k of the outgoing sequence is not to be posted:
\* it has no text or is a membership event, or it is a reply none of whose
\* parent's posts went through before
NotToBePosted(k) ==
    \/ ~outgoing[k].text
    \/ outgoing[k].subtype \in {"channel_join", "channel_leave"}
    \/ IsReply(outgoing[k]) /\ ~ParentPosted(k)

\* C39: a message that is skipped (no text, channel_join, channel_leave) or
\* dropped (a reply whose parent has no mapping) causes no remote call: no
\* record of a file upload, a post or a reaction call exists for its
\* position, and the loop iteration over it leaves the posts and the thread
\* mapping as they were
C39_NoEffectOfUnposted ==
    /\ [](\A k \in 1..(uidx - 1) :
            (k \in DOMAIN outgoing /\ NotToBePosted(k)) => ~Attempted(k))
    /\ [][(/\ upc = "posting"
           /\ uidx' = uidx + 1
           /\ \/ ~outgoing[uidx].text
              \/ outgoing[uidx].subtype \in {"channel_join", "channel_leave"}
              \/ IsReply(outgoing[uidx]) /\ thread_mapping[outgoing[uidx].thread_ts] = 0)
          => /\ posts' = posts
             /\ thread_mapping' = thread_mapping]_vars

\* a message without text that carries a downloaded file and reactions was
\* passed over, and so was the reply to it, which carries a downloaded file;
\* nothing was posted for either
C39_Witness ==
    /\ upc = "done"
    /\ Len(outgoing) = 2
    /\ ~outgoing[1].text
    /\ Step1Uploads(outgoing[1]) # <<>> /\ outgoing[1].reactions # <<>>
    /\ IsReply(outgoing[2]) /\ outgoing[2].text
    /\ Step1Uploads(outgoing[2]) # <<>>
    /\ posts = <<>>
    /\ \A t \in 1..MaxUpTs : thread_mapping[t] = 0

\* ---- properties of the upload of several channels -------------------------
\* the channel iteration that post i belongs to: the latest one begun at or
\* before it
SentOf(i) ==
    CHOOSE s \in DOMAIN mp.sent :
        /\ mp.sent[s].first <= i
        /\ \A s2 \in DOMAIN mp.sent : mp.sent[s2].first <= i => s2 <= s

\* C40: every post for a message stored under a source channel is sent to
\* the destination channel that channel is mapped to; a source channel
\* without mapping gets no post; and a reply is attached only to the
\* destination timestamp that a post of its parent got in the upload of the
\* same channel
C40_ChannelScoping ==
    /\ \A s \in DOMAIN mp.sent :
          /\ mp.channel_mapping[mp.sent[s].src] # 0
          /\ mp.sent[s].dest = mp.channel_mapping[mp.sent[s].src]
          /\ \A s2 \in DOMAIN mp.sent : mp.sent[s2].src = mp.sent[s].src => s2 = s
    /\ \A i \in DOMAIN posts :
          /\ \E k \in DOMAIN mp.messages_data[mp.sent[SentOf(i)].src] :
                mp.messages_data[mp.sent[SentOf(i)].src][k] = posts[i].src
          /\ posts[i].thread_ts # 0 =>
                \E j \in 1..(i - 1) :
                    /\ SentOf(j) = SentOf(i)
                    /\ posts[j].ok
                    /\ posts[j].dts = posts[i].thread_ts
                    /\ posts[j].src.ts = posts[i].src.thread_ts

\* the first channel held a plain message, which was posted to the channel it
\* is mapped to; the second, mapped to another channel, held only a reply to
\* a message of the same timestamp, and the reply was not posted
C40_Witness ==
    /\ mp.mci = 3 /\ upc = "done"
    /\ Len(mp.sent) = 2
    /\ mp.sent[1].dest # mp.sent[2].dest
    /\ Len(posts) = 1 /\ posts[1].ok
    /\ mp.messages_data[2] = <<UpMsg(2, 1, "none", TRUE)>>
    /\ posts[1].src.ts = mp.messages_data[2][1].thread_ts

====
